---- MODULE Spec2Model ----
(***************************************************************************)
(* Model of the windowed raster cache of sion (maxx_sim::dem_buffer) and   *)
(* of the coordinate types it is built on (maxx_sim::types).               *)
(*                                                                         *)
(* A Deg (f32 degrees) is held as an exact rational with denominator       *)
(* 2 * dem_tile_size: the integer h stands for h / (2 * dem_tile_size)     *)
(* degrees, i.e. h half-cells.  Every degree value the buffer computes is  *)
(* a multiple of one cell, and the half-cell inputs exercise the           *)
(* truncation of from_degrees.                                             *)
(***************************************************************************)
EXTENDS Integers, Sequences, FiniteSets, TLC

VARIABLES dem_buffer, pc, arg, calls, unit

vars == <<dem_buffer, pc, arg, calls, unit>>

(***************************************************************************)
(* Bounds of the model: the arguments of DemBuffer::new and the inputs of  *)
(* update_map_position, and the number of calls made on one buffer.        *)
(***************************************************************************)
BufferWidth == 4
BufferHeight == 3
DemTileSize == 3
MinCellDistance == 1
MaxLonCell == 2
MaxLatCell == 1
SmallVisibleWidth == 1
SmallVisibleHeight == 1
MaxCalls == 2
MaxTileSize == 3
MaxValue == 7
MaxDimension == 2

(***************************************************************************)
(* Program constants.                                                      *)
(***************************************************************************)
I16Min == -32768
I16Max == 32767
TwoPow16 == 65536
MinDegExclusive == -181
MaxDegExclusive == 180
FullCircle == 360

(***************************************************************************)
(* Rust integer arithmetic: `/` truncates toward zero, `%` is the          *)
(* remainder of that division (its sign follows the dividend).             *)
(***************************************************************************)
RustDiv(a, b) == IF a >= 0 THEN a \div b ELSE -((-a) \div b)

RustRem(a, b) == a - b * RustDiv(a, b)

Min(a, b) == IF a <= b THEN a ELSE b

Max(a, b) == IF a >= b THEN a ELSE b

None == <<>>

Some(x) == <<x>>

(***************************************************************************)
(* types.rs: Deg                                                           *)
(***************************************************************************)
\* Deg::new panics unless -181 < value < 180; `ok` is FALSE for the panic.
\* Deg::new accepting the two ends of the interval
DegNew_closed(h, dem_tile_size) ==
    [ok    |-> h >= MinDegExclusive * 2 * dem_tile_size
               /\ h <= MaxDegExclusive * 2 * dem_tile_size,
     value |-> h]

DegNew(h, dem_tile_size) ==
    [ok    |-> h > MinDegExclusive * 2 * dem_tile_size
               /\ h < MaxDegExclusive * 2 * dem_tile_size,
     value |-> h]

\* Deg::to_int_floor: f32::floor, then the cast.
to_int_floor(h, dem_tile_size) == h \div (2 * dem_tile_size)

(***************************************************************************)
(* types.rs: GlobalCell                                                    *)
(***************************************************************************)
\* (value.value * dem_tile_size as f32) as i32: the cast truncates toward zero.
from_degrees(h, dem_tile_size) == RustDiv(h, 2)

\* degrees = value / dem_tile_size, renormalised by 360 when <= -181 or >= 180,
\* and passed through Deg::new.
to_tile_degrees(value, dem_tile_size) ==
    LET degrees == 2 * value
        turn    == FullCircle * 2 * dem_tile_size
    IN  IF degrees <= MinDegExclusive * 2 * dem_tile_size
        THEN DegNew(degrees + turn, dem_tile_size)
        ELSE IF degrees >= MaxDegExclusive * 2 * dem_tile_size
             THEN DegNew(degrees - turn, dem_tile_size)
             ELSE DegNew(degrees, dem_tile_size)

\* to_local_cell_lon returning the remainder as it is
to_local_cell_lon_remainder(value, dem_tile_size) ==
    RustRem(value, dem_tile_size)

to_local_cell_lon(value, dem_tile_size) ==
    LET m == RustRem(value, dem_tile_size)
    IN  IF m < 0 THEN dem_tile_size + m ELSE m

\* to_local_cell_lat without the adjustment of a negative result
to_local_cell_lat_unadjusted(value, dem_tile_size) ==
    IF value < 0
    THEN -1 - RustRem(value, dem_tile_size)
    ELSE dem_tile_size - 1 - RustRem(value, dem_tile_size)

to_local_cell_lat(value, dem_tile_size) ==
    IF value < 0
    THEN LET a == -1 - RustRem(value, dem_tile_size)
         IN  IF a < 0 THEN a + dem_tile_size ELSE a
    ELSE dem_tile_size - 1 - RustRem(value, dem_tile_size)

(***************************************************************************)
(* dem_buffer.rs: CellKey, two signed 16-bit values packed into an i32.    *)
(***************************************************************************)
CoordsOutOfBounds(x, y) ==
    x <= I16Min \/ x >= I16Max \/ y <= I16Min \/ y >= I16Max

\* (y << 16) | (x & 0xFFFF); the low 16 bits of y << 16 are zero, so the
\* bitwise or is a sum.  `ok` is FALSE for the panic.
from_cell_coords(x, y) ==
    [ok    |-> ~CoordsOutOfBounds(x, y),
     value |-> y * TwoPow16 + (x % TwoPow16)]

AsI16(u) == IF u >= -I16Min THEN u - TwoPow16 ELSE u

\* the two halves read as unsigned 16-bit values
to_cell_coords_unsigned(value) ==
    LET x == value % TwoPow16
        y == (value \div TwoPow16) % TwoPow16
    IN  [ok |-> ~CoordsOutOfBounds(x, y), x |-> x, y |-> y]

\* a CellKey is its i32 value
from_i32(value) == value

to_i32(value) == value

\* ((value & 0xFFFF) as i16, ((value >> 16) & 0xFFFF) as i16)
to_cell_coords(value) ==
    LET x == AsI16(value % TwoPow16)
        y == AsI16((value \div TwoPow16) % TwoPow16)
    IN  [ok |-> ~CoordsOutOfBounds(x, y), x |-> x, y |-> y]

(***************************************************************************)
(* dem_buffer.rs: DemBuffer.  The object is one record; `panic` holds the  *)
(* message of the panic that aborted the running call ("" when none).      *)
(***************************************************************************)
\* A Vec: the elements as a sequence, the element of index i at place i + 1.
vec(elements) == elements \o <<>>

DemBufferNew(width, height, dem_tile_size, min_cell_distance_to_edge_before_refresh) ==
    [buffer_width  |-> width,
     buffer_height |-> height,
     dem_tile_size |-> dem_tile_size,
     min_cell_distance_to_edge_before_refresh |->
         min_cell_distance_to_edge_before_refresh,
     state |-> "Uninitialized",
     data  |-> vec([i \in 1 .. (width * height) |-> 0]),
     center_global_cell_lon |-> 0,
     center_global_cell_lat |-> 0,
     buffer_west_edge  |-> 0,
     buffer_east_edge  |-> 0,
     buffer_north_edge |-> 0,
     buffer_south_edge |-> 0,
     slices_loaded |-> <<>>,
     block_move    |-> None,
     \* (width * height) as usize of a negative product is too large for vec!
     panic |-> IF width * height < 0 THEN "capacity overflow" ELSE ""]

Panic(self, msg) == [self EXCEPT !.panic = msg]

DataLen(self) == self.buffer_width * self.buffer_height

\* get_cell: the value, or the "Index out of bounds" panic.
get_cell(self, x, y) ==
    LET index == y * self.buffer_width + x
    IN  IF index >= 0 /\ index < DataLen(self)
        THEN [ok |-> TRUE, value |-> self.data[index + 1]]
        ELSE [ok |-> FALSE, value |-> 0]

\* set_cell's two checks: the panic it ends in, "" when it stores the value.
set_cell_check(self, x, y) ==
    LET index == y * self.buffer_width + x
    IN  IF index >= 0 /\ index < DataLen(self)
        THEN IF self.data[index + 1] # 0
             THEN "Bug: Trying to overwrite an already occupied cell"
             ELSE ""
        ELSE "Index out of bounds"

set_cell(self, x, y, value) ==
    LET index == y * self.buffer_width + x
        check == set_cell_check(self, x, y)
    IN  IF check # ""
        THEN Panic(self, check)
        ELSE [self EXCEPT !.data[index + 1] = value]

clear_data(self) ==
    [self EXCEPT !.data = vec([i \in DOMAIN self.data |-> 0])]

\* clear_update_log with the slice list forgotten
clear_update_log_keeping_slices(self) ==
    [self EXCEPT !.block_move = None]

clear_update_log(self) ==
    [self EXCEPT !.slices_loaded = <<>>, !.block_move = None]

(***************************************************************************)
(* load_tile_slice: fills the cells of one slice, row by row, with the     *)
(* CellKey of the global cell each one stands for, then logs the slice.    *)
(***************************************************************************)
\* The CellKey the two nested loops compute for the k-th cell of the slice,
\* the cells counted row by row.
\* the key of the k-th cell with the rows of the tile counted from the south
load_tile_slice_cell_key_not_flipped(self, slice, lon_global_cell, lat_global_cell, k) ==
    from_cell_coords(
        lon_global_cell + slice.slice_tile_x0 + (k % slice.slice_width),
        lat_global_cell + slice.slice_tile_y0 + (k \div slice.slice_width))

load_tile_slice_cell_key(self, slice, lon_global_cell, lat_global_cell, k) ==
    from_cell_coords(
        lon_global_cell + slice.slice_tile_x0 + (k % slice.slice_width),
        lat_global_cell + (self.dem_tile_size - 1
                           - (slice.slice_tile_y0 + (k \div slice.slice_width))))

\* The body of the two nested loops for the k-th cell of the slice, the
\* cells counted row by row: the panic it ends in ("" when it completes),
\* whether it stored a value before that, and the index and the value.
load_tile_slice_cell_outcome(self, slice, lon_global_cell, lat_global_cell, k) ==
    LET x == k % slice.slice_width
        y == k \div slice.slice_width
        tile_x == slice.slice_tile_x0 + x
        tile_y == slice.slice_tile_y0 + y
        dem_lon_global_cell == lon_global_cell + tile_x
        dem_lat_global_cell == lat_global_cell + (self.dem_tile_size - 1 - tile_y)
        buffer_x == slice.slice_buffer_x0 + x
        buffer_y == slice.slice_buffer_y0 + y
        key == load_tile_slice_cell_key(self, slice, lon_global_cell,
                                        lat_global_cell, k)
        check == set_cell_check(self, buffer_x, buffer_y)
        \* get_cell of the cell just set returns the value just stored
        control == to_cell_coords(key.value)
        outcome(panic, written) ==
            [panic |-> panic, written |-> written,
             index |-> buffer_y * self.buffer_width + buffer_x,
             value |-> key.value]
    IN  IF tile_x < 0 \/ tile_x >= self.dem_tile_size
        THEN outcome("Bug: Tile X coordinate out of bounds", FALSE)
        ELSE IF tile_y < 0 \/ tile_y >= self.dem_tile_size
        THEN outcome("Bug: Tile Y coordinate out of bounds", FALSE)
        ELSE IF /\ buffer_x = RustDiv(self.buffer_width, 2)
                /\ buffer_y = RustDiv(self.buffer_height, 2)
                /\ \/ dem_lon_global_cell # self.center_global_cell_lon
                   \/ dem_lat_global_cell # self.center_global_cell_lat
        THEN outcome("Bug: Center cell does not match loaded DEM cell", FALSE)
        ELSE IF ~key.ok
        THEN outcome("Cell coordinates out of bounds", FALSE)
        ELSE IF check # ""
        THEN outcome(check, FALSE)
        ELSE IF ~control.ok
        THEN outcome("Cell coordinates out of bounds", TRUE)
        ELSE IF control.x # dem_lon_global_cell \/ control.y # dem_lat_global_cell
        THEN outcome("Bug: Cell does not match loaded DEM cell", TRUE)
        ELSE outcome("", TRUE)

\* the buffer after a cell's body of that outcome
after_cell(self, outcome) ==
    IF ~outcome.written
    THEN Panic(self, outcome.panic)
    ELSE [self EXCEPT !.data[outcome.index + 1] = outcome.value,
                      !.panic = outcome.panic]

load_tile_slice_cell(self, slice, lon_global_cell, lat_global_cell, k) ==
    after_cell(self, load_tile_slice_cell_outcome(self, slice, lon_global_cell,
                                                  lat_global_cell, k))

\* The two nested loops for the cells lo .. hi - 1 of the slice, in their
\* order, stopping at the first panic: the first half, then the second.
RECURSIVE load_tile_slice_cells(_, _, _, _, _, _)
load_tile_slice_cells(self, slice, lon_global_cell, lat_global_cell, lo, hi) ==
    IF hi <= lo
    THEN self
    ELSE IF hi = lo + 1
    THEN load_tile_slice_cell(self, slice, lon_global_cell, lat_global_cell, lo)
    ELSE LET mid == (lo + hi) \div 2
             first_half == load_tile_slice_cells(self, slice, lon_global_cell,
                                                 lat_global_cell, lo, mid)
         IN  IF first_half.panic # ""
             THEN first_half
             ELSE load_tile_slice_cells(first_half, slice, lon_global_cell,
                                        lat_global_cell, mid, hi)

\* The first of the cells 0 .. cells - 1 whose body panics on the buffer as
\* the loops found it, or `cells` when none does.
load_tile_slice_first_panic(self, slice, lon_global_cell, lat_global_cell, cells) ==
    LET panicking == {k \in 0 .. (cells - 1) :
                         load_tile_slice_cell_outcome(
                             self, slice, lon_global_cell, lat_global_cell,
                             k).panic # ""}
    IN  IF panicking = {}
        THEN cells
        ELSE CHOOSE k \in panicking : \A other \in panicking : k <= other

\* The two nested loops over a slice no wider than the buffer, `stop` being
\* the first cell whose body panics.  The cells of such a slice have indexes
\* of their own, so no cell of the loops reads what another one stored, and
\* the loops' effect is every cell's own effect up to the first panic.
load_tile_slice_rows_until(self, slice, lon_global_cell, lat_global_cell, cells, stop) ==
    LET last == load_tile_slice_cell_outcome(self, slice, lon_global_cell,
                                             lat_global_cell, stop)
        stored == IF stop < cells /\ last.written THEN stop + 1 ELSE stop
        offset(i) == i - 1 - slice.slice_buffer_y0 * self.buffer_width
                       - slice.slice_buffer_x0
        cell_of(i) == (offset(i) \div self.buffer_width) * slice.slice_width
                      + (offset(i) % self.buffer_width)
        stored_at(i) == /\ offset(i) >= 0
                        /\ offset(i) % self.buffer_width < slice.slice_width
                        /\ cell_of(i) < stored
    IN  [self EXCEPT
            !.data = vec([i \in DOMAIN self.data |->
                            IF stored_at(i)
                            THEN load_tile_slice_cell_key(
                                     self, slice, lon_global_cell,
                                     lat_global_cell, cell_of(i)).value
                            ELSE self.data[i]]),
            !.panic = IF stop < cells THEN last.panic ELSE ""]

load_tile_slice_rows(self, slice, lon_global_cell, lat_global_cell, cells) ==
    load_tile_slice_rows_until(
        self, slice, lon_global_cell, lat_global_cell, cells,
        load_tile_slice_first_panic(self, slice, lon_global_cell,
                                    lat_global_cell, cells))

\* the number of cells the two nested loops visit
LoopCells(width, height) == IF width <= 0 \/ height <= 0 THEN 0 ELSE width * height

\* load_tile_slice's last statement: the slice is logged once it is filled
log_tile_slice(filled, slice) ==
    IF filled.panic # ""
    THEN filled
    ELSE [filled EXCEPT !.slices_loaded = Append(@, slice)]

load_tile_slice(self, slice) ==
    LET lon_deg == DegNew(slice.tile_key.lon * 2 * self.dem_tile_size,
                          self.dem_tile_size)
        lat_deg == DegNew(slice.tile_key.lat * 2 * self.dem_tile_size,
                          self.dem_tile_size)
        lon_global_cell == from_degrees(lon_deg.value, self.dem_tile_size)
        lat_global_cell == from_degrees(lat_deg.value, self.dem_tile_size)
        cells == LoopCells(slice.slice_width, slice.slice_height)
    IN  IF ~lon_deg.ok \/ ~lat_deg.ok
        THEN Panic(self, "Invalid degree value")
        ELSE IF slice.slice_width <= self.buffer_width
        THEN log_tile_slice(
                 load_tile_slice_rows(self, slice, lon_global_cell,
                                      lat_global_cell, cells),
                 slice)
        ELSE log_tile_slice(
                 load_tile_slice_cells(self, slice, lon_global_cell,
                                       lat_global_cell, 0, cells),
                 slice)

(***************************************************************************)
(* update_buffer_area: the tiling loop.  `cur` is the cursor of the loop   *)
(* (slice_buffer_x0, slice_buffer_y0, slice_west_edge_global_cell,         *)
(* slice_north_edge_global_cell); `fuel` bounds the iterations, and a loop *)
(* that outlives it is reported as the panic value "does not terminate".   *)
(***************************************************************************)
LoopFuel(self) == 2 * self.buffer_width * self.buffer_height + 2

RECURSIVE update_buffer_area_loop(_, _, _, _)

\* The end of one iteration, `loaded` being the buffer after load_tile_slice:
\* the cursor moves right, or to the start of the next row of slices, or the
\* loop ends.
\* the cursor never moving down to the next row of tiles
update_buffer_area_advance_one_row(loaded, area, right, below, fuel) ==
    IF loaded.panic # ""
    THEN loaded
    ELSE IF right.slice_buffer_x0 >= area.area_width
    THEN loaded
    ELSE update_buffer_area_loop(loaded, area, right, fuel - 1)

\* the cursor never moving right to the next column of tiles
update_buffer_area_advance_one_column(loaded, area, right, below, fuel) ==
    IF loaded.panic # ""
    THEN loaded
    ELSE IF below.slice_buffer_y0 >= area.area_height
    THEN loaded
    ELSE update_buffer_area_loop(loaded, area, below, fuel - 1)

update_buffer_area_advance(loaded, area, right, below, fuel) ==
    IF loaded.panic # ""
    THEN loaded
    ELSE IF right.slice_buffer_x0 >= area.area_width
    THEN IF below.slice_buffer_y0 >= area.area_height
         THEN loaded
         ELSE update_buffer_area_loop(loaded, area, below, fuel - 1)
    ELSE update_buffer_area_loop(loaded, area, right, fuel - 1)

\* a slice of no extent, so a cursor that never advances
slice_extent_none(remaining, dem_tile_size, slice_tile_0) == 0

\* a slice extent that fits the remaining area only
slice_extent_of_area(remaining, dem_tile_size, slice_tile_0) == remaining

\* "calculate the size of the tile slice to be loaded", one direction: what
\* remains of the area, cut at the boundary of the tile
slice_extent(remaining, dem_tile_size, slice_tile_0) ==
    Min(remaining, dem_tile_size - slice_tile_0)

update_buffer_area_loop(self, area, cur, fuel) ==
    LET tile_lon == to_tile_degrees(cur.slice_west_edge_global_cell,
                                    self.dem_tile_size)
        tile_lat == to_tile_degrees(cur.slice_north_edge_global_cell,
                                    self.dem_tile_size)
        tile_key == [lon |-> to_int_floor(tile_lon.value, self.dem_tile_size),
                     lat |-> to_int_floor(tile_lat.value, self.dem_tile_size)]
        slice_tile_x0 == to_local_cell_lon(cur.slice_west_edge_global_cell,
                                           self.dem_tile_size)
        slice_tile_y0 == to_local_cell_lat(cur.slice_north_edge_global_cell,
                                           self.dem_tile_size)
        area_x1 == area.area_x + area.area_width
        slice_width == slice_extent(area_x1 - cur.slice_buffer_x0,
                                    self.dem_tile_size, slice_tile_x0)
        area_y1 == area.area_y + area.area_height
        slice_height == slice_extent(area_y1 - cur.slice_buffer_y0,
                                     self.dem_tile_size, slice_tile_y0)
        slice == [tile_key |-> tile_key,
                  slice_buffer_x0 |-> cur.slice_buffer_x0,
                  slice_buffer_y0 |-> cur.slice_buffer_y0,
                  slice_tile_x0 |-> slice_tile_x0,
                  slice_tile_y0 |-> slice_tile_y0,
                  slice_width |-> slice_width,
                  slice_height |-> slice_height]
        right == [cur EXCEPT !.slice_buffer_x0 = @ + slice_width,
                             !.slice_west_edge_global_cell = @ + slice_width]
        below == [slice_buffer_x0 |-> area.area_x,
                  slice_west_edge_global_cell |->
                      self.buffer_west_edge + area.area_x,
                  slice_buffer_y0 |-> cur.slice_buffer_y0 + slice_height,
                  slice_north_edge_global_cell |->
                      cur.slice_north_edge_global_cell - slice_height]
    IN  IF fuel = 0
        THEN Panic(self, "does not terminate")
        ELSE IF ~tile_lon.ok \/ ~tile_lat.ok
        THEN Panic(self, "Invalid degree value")
        ELSE update_buffer_area_advance(load_tile_slice(self, slice), area,
                                        right, below, fuel)

update_buffer_area(self, area_x, area_y, area_width, area_height) ==
    update_buffer_area_loop(
        self,
        [area_x |-> area_x, area_y |-> area_y,
         area_width |-> area_width, area_height |-> area_height],
        [slice_buffer_x0 |-> area_x,
         slice_buffer_y0 |-> area_y,
         slice_west_edge_global_cell |-> self.buffer_west_edge + area_x,
         slice_north_edge_global_cell |-> self.buffer_north_edge],
        LoopFuel(self))

(***************************************************************************)
(* reload_entire_buffer                                                    *)
(***************************************************************************)
\* reload_entire_buffer without the final state assignment
reload_entire_buffer_state_not_set(self, lon, lat) ==
    LET center_lon == from_degrees(lon, self.dem_tile_size)
        center_lat == from_degrees(lat, self.dem_tile_size)
        west  == center_lon - RustDiv(self.buffer_width, 2)
        north == center_lat + RustDiv(self.buffer_height, 2)
        moved == [clear_data(self) EXCEPT
                     !.center_global_cell_lon = center_lon,
                     !.center_global_cell_lat = center_lat,
                     !.buffer_west_edge  = west,
                     !.buffer_east_edge  = west + self.buffer_width,
                     !.buffer_north_edge = north,
                     !.buffer_south_edge = north - self.buffer_height]
    IN  update_buffer_area(moved, 0, 0, self.buffer_width, self.buffer_height)

reload_entire_buffer(self, lon, lat) ==
    LET center_lon == from_degrees(lon, self.dem_tile_size)
        center_lat == from_degrees(lat, self.dem_tile_size)
        west  == center_lon - RustDiv(self.buffer_width, 2)
        north == center_lat + RustDiv(self.buffer_height, 2)
        moved == [clear_data(self) EXCEPT
                     !.center_global_cell_lon = center_lon,
                     !.center_global_cell_lat = center_lat,
                     !.buffer_west_edge  = west,
                     !.buffer_east_edge  = west + self.buffer_width,
                     !.buffer_north_edge = north,
                     !.buffer_south_edge = north - self.buffer_height]
        filled == update_buffer_area(moved, 0, 0, self.buffer_width,
                                     self.buffer_height)
    IN  IF filled.panic # ""
        THEN filled
        ELSE [filled EXCEPT !.state = "Initialized"]

(***************************************************************************)
(* is_buffer_update_required                                               *)
(***************************************************************************)
\* is_buffer_update_required with <= for <
is_buffer_update_required_at_margin(self, lon, lat, visible_area_width, visible_area_height) ==
    LET visible_west_edge  == from_degrees(lon, self.dem_tile_size)
                                  - RustDiv(visible_area_width, 2)
        visible_east_edge  == visible_west_edge + visible_area_width
        visible_north_edge == from_degrees(lat, self.dem_tile_size)
                                  + RustDiv(visible_area_height, 2)
        visible_south_edge == visible_north_edge - visible_area_height
        margin == self.min_cell_distance_to_edge_before_refresh
    IN  \/ visible_west_edge - self.buffer_west_edge <= margin
        \/ self.buffer_east_edge - visible_east_edge <= margin
        \/ self.buffer_north_edge - visible_north_edge <= margin
        \/ visible_south_edge - self.buffer_south_edge <= margin

\* is_buffer_update_required without the check of the west side
is_buffer_update_required_no_west(self, lon, lat, visible_area_width, visible_area_height) ==
    LET visible_west_edge  == from_degrees(lon, self.dem_tile_size)
                                  - RustDiv(visible_area_width, 2)
        visible_east_edge  == visible_west_edge + visible_area_width
        visible_north_edge == from_degrees(lat, self.dem_tile_size)
                                  + RustDiv(visible_area_height, 2)
        visible_south_edge == visible_north_edge - visible_area_height
        margin == self.min_cell_distance_to_edge_before_refresh
    IN  \/ self.buffer_east_edge - visible_east_edge < margin
        \/ self.buffer_north_edge - visible_north_edge < margin
        \/ visible_south_edge - self.buffer_south_edge < margin

\* is_buffer_update_required without the check of the south side
is_buffer_update_required_no_south(self, lon, lat, visible_area_width, visible_area_height) ==
    LET visible_west_edge  == from_degrees(lon, self.dem_tile_size)
                                  - RustDiv(visible_area_width, 2)
        visible_east_edge  == visible_west_edge + visible_area_width
        visible_north_edge == from_degrees(lat, self.dem_tile_size)
                                  + RustDiv(visible_area_height, 2)
        margin == self.min_cell_distance_to_edge_before_refresh
    IN  \/ visible_west_edge - self.buffer_west_edge < margin
        \/ self.buffer_east_edge - visible_east_edge < margin
        \/ self.buffer_north_edge - visible_north_edge < margin

is_buffer_update_required(self, lon, lat, visible_area_width, visible_area_height) ==
    LET map_center_lon_cell == from_degrees(lon, self.dem_tile_size)
        map_center_lat_cell == from_degrees(lat, self.dem_tile_size)
        visible_west_edge  == map_center_lon_cell - RustDiv(visible_area_width, 2)
        visible_east_edge  == visible_west_edge + visible_area_width
        visible_north_edge == map_center_lat_cell + RustDiv(visible_area_height, 2)
        visible_south_edge == visible_north_edge - visible_area_height
        west_edge_distance_in_cells  == visible_west_edge - self.buffer_west_edge
        east_edge_distance_in_cells  == self.buffer_east_edge - visible_east_edge
        north_edge_distance_in_cells == self.buffer_north_edge - visible_north_edge
        south_edge_distance_in_cells == visible_south_edge - self.buffer_south_edge
    IN  \/ west_edge_distance_in_cells
              < self.min_cell_distance_to_edge_before_refresh
        \/ east_edge_distance_in_cells
              < self.min_cell_distance_to_edge_before_refresh
        \/ north_edge_distance_in_cells
              < self.min_cell_distance_to_edge_before_refresh
        \/ south_edge_distance_in_cells
              < self.min_cell_distance_to_edge_before_refresh

(***************************************************************************)
(* try_partial_update, first part: the new edges, the intersection of the  *)
(* old and the new coverage, and the block to relocate.                    *)
(***************************************************************************)
\* partial_update_plan placing the west edge of the new coverage at the centre
partial_update_plan_from_center(self, lon, lat) ==
    LET new_west  == from_degrees(lon, self.dem_tile_size)
        new_east  == new_west + self.buffer_width
        new_north == from_degrees(lat, self.dem_tile_size)
                         + RustDiv(self.buffer_height, 2)
        new_south == new_north - self.buffer_height
        intersection_west_edge  == Max(self.buffer_west_edge, new_west)
        intersection_east_edge  == Min(self.buffer_east_edge, new_east)
        intersection_north_edge == Min(self.buffer_north_edge, new_north)
        intersection_south_edge == Max(self.buffer_south_edge, new_south)
    IN  [new_buffer_west_edge_global_cell  |-> new_west,
         new_buffer_east_edge_global_cell  |-> new_east,
         new_buffer_north_edge_global_cell |-> new_north,
         new_buffer_south_edge_global_cell |-> new_south,
         source_x0 |-> intersection_west_edge - self.buffer_west_edge,
         source_y0 |-> self.buffer_north_edge - intersection_north_edge,
         block_width  |-> intersection_east_edge - intersection_west_edge,
         block_height |-> intersection_north_edge - intersection_south_edge,
         dest_x0 |-> intersection_west_edge - new_west,
         dest_y0 |-> new_north - intersection_north_edge]

partial_update_plan(self, lon, lat) ==
    LET new_west  == from_degrees(lon, self.dem_tile_size)
                         - RustDiv(self.buffer_width, 2)
        new_east  == new_west + self.buffer_width
        new_north == from_degrees(lat, self.dem_tile_size)
                         + RustDiv(self.buffer_height, 2)
        new_south == new_north - self.buffer_height
        intersection_west_edge  == Max(self.buffer_west_edge, new_west)
        intersection_east_edge  == Min(self.buffer_east_edge, new_east)
        intersection_north_edge == Min(self.buffer_north_edge, new_north)
        intersection_south_edge == Max(self.buffer_south_edge, new_south)
    IN  [new_buffer_west_edge_global_cell  |-> new_west,
         new_buffer_east_edge_global_cell  |-> new_east,
         new_buffer_north_edge_global_cell |-> new_north,
         new_buffer_south_edge_global_cell |-> new_south,
         source_x0 |-> intersection_west_edge - self.buffer_west_edge,
         source_y0 |-> self.buffer_north_edge - intersection_north_edge,
         block_width  |-> intersection_east_edge - intersection_west_edge,
         block_height |-> intersection_north_edge - intersection_south_edge,
         dest_x0 |-> intersection_west_edge - new_west,
         dest_y0 |-> new_north - intersection_north_edge]

\* has_intersection asking for a block of at least one cell
has_intersection_of_cells(plan) == plan.block_width > 0 /\ plan.block_height > 0

\* is there actually any intersection?
has_intersection(plan) == plan.block_width >= 0 /\ plan.block_height >= 0

(***************************************************************************)
(* move_dem_block: copy the buffer, clear it, and copy the block from the  *)
(* copy to its new position.                                               *)
(***************************************************************************)
\* The body of the copy loops for the k-th cell of the block: the panic it
\* ends in ("" when it completes), and the index and the value it stores.
\* the copy loop reading each cell at its destination, not at its source
move_dem_block_cell_outcome_in_place(self, data_copy, bm, k) ==
    LET x == k % bm.block_width
        y == k \div bm.block_width
        source_index == (bm.dest_y0 + y) * self.buffer_width + (bm.dest_x0 + x)
        check == set_cell_check(self, bm.dest_x0 + x, bm.dest_y0 + y)
    IN  IF source_index < 0 \/ source_index >= DataLen(self)
        THEN [panic |-> "index out of bounds", written |-> FALSE,
              index |-> 0, value |-> 0]
        ELSE [panic |-> check, written |-> check = "",
              index |-> (bm.dest_y0 + y) * self.buffer_width + (bm.dest_x0 + x),
              value |-> data_copy[source_index + 1]]

move_dem_block_cell_outcome(self, data_copy, bm, k) ==
    LET x == k % bm.block_width
        y == k \div bm.block_width
        source_index == (bm.source_y0 + y) * self.buffer_width + (bm.source_x0 + x)
        check == set_cell_check(self, bm.dest_x0 + x, bm.dest_y0 + y)
    IN  IF source_index < 0 \/ source_index >= DataLen(self)
        THEN [panic |-> "index out of bounds", written |-> FALSE,
              index |-> 0, value |-> 0]
        ELSE [panic |-> check, written |-> check = "",
              index |-> (bm.dest_y0 + y) * self.buffer_width + (bm.dest_x0 + x),
              value |-> data_copy[source_index + 1]]

move_dem_block_cell(self, data_copy, bm, k) ==
    after_cell(self, move_dem_block_cell_outcome(self, data_copy, bm, k))

\* The copy loops for the cells lo .. hi - 1 of the block, in their order.
RECURSIVE move_dem_block_cells(_, _, _, _, _)
move_dem_block_cells(self, data_copy, bm, lo, hi) ==
    IF hi <= lo
    THEN self
    ELSE IF hi = lo + 1
    THEN move_dem_block_cell(self, data_copy, bm, lo)
    ELSE LET mid == (lo + hi) \div 2
             first_half == move_dem_block_cells(self, data_copy, bm, lo, mid)
         IN  IF first_half.panic # ""
             THEN first_half
             ELSE move_dem_block_cells(first_half, data_copy, bm, mid, hi)

\* The first of the cells 0 .. cells - 1 whose body panics on the cleared
\* buffer, or `cells` when none does.
move_dem_block_first_panic(self, data_copy, bm, cells) ==
    LET panicking == {k \in 0 .. (cells - 1) :
                         move_dem_block_cell_outcome(self, data_copy, bm,
                                                     k).panic # ""}
    IN  IF panicking = {}
        THEN cells
        ELSE CHOOSE k \in panicking : \A other \in panicking : k <= other

\* The copy loops over a block no wider than the buffer, whose cells have
\* destination indexes of their own: every cell's own effect on the cleared
\* buffer, up to `stop`, the first cell whose body panics.
move_dem_block_rows_until(self, data_copy, bm, cells, stop) ==
    LET offset(i) == i - 1 - bm.dest_y0 * self.buffer_width - bm.dest_x0
        cell_of(i) == (offset(i) \div self.buffer_width) * bm.block_width
                      + (offset(i) % self.buffer_width)
        stored_at(i) == /\ offset(i) >= 0
                        /\ offset(i) % self.buffer_width < bm.block_width
                        /\ cell_of(i) < stop
    IN  [self EXCEPT
            !.data = vec([i \in DOMAIN self.data |->
                            IF stored_at(i)
                            THEN move_dem_block_cell_outcome(
                                     self, data_copy, bm, cell_of(i)).value
                            ELSE self.data[i]]),
            !.panic = IF stop < cells
                      THEN move_dem_block_cell_outcome(self, data_copy, bm,
                                                       stop).panic
                      ELSE ""]

move_dem_block_rows(self, data_copy, bm, cells) ==
    move_dem_block_rows_until(
        self, data_copy, bm, cells,
        move_dem_block_first_panic(self, data_copy, bm, cells))

\* move_dem_block's last statement: the move is logged once it is done
log_block_move(moved, bm) ==
    IF moved.panic # "" THEN moved ELSE [moved EXCEPT !.block_move = Some(bm)]

\* move_dem_block, the block given as the record the log keeps
move_dem_block_of(self, bm) ==
    IF bm.block_width <= self.buffer_width
    THEN log_block_move(
             move_dem_block_rows(clear_data(self), self.data, bm,
                                 LoopCells(bm.block_width, bm.block_height)),
             bm)
    ELSE log_block_move(
             move_dem_block_cells(clear_data(self), self.data, bm, 0,
                                  LoopCells(bm.block_width, bm.block_height)),
             bm)

move_dem_block(self, source_x0, source_y0, block_width, block_height, dest_x0, dest_y0) ==
    move_dem_block_of(self,
        [source_x0 |-> source_x0, source_y0 |-> source_y0,
         block_width |-> block_width, block_height |-> block_height,
         dest_x0 |-> dest_x0, dest_y0 |-> dest_y0])

\* try_partial_update, "update the buffer's fields".
\* commit_new_position switching nothing
commit_new_position_not_switching(self, lon, lat, plan) == self

\* commit_new_position switching the edges and leaving the centre
commit_new_position_keeping_center(self, lon, lat, plan) ==
    [self EXCEPT
        !.buffer_north_edge = plan.new_buffer_north_edge_global_cell,
        !.buffer_south_edge = plan.new_buffer_south_edge_global_cell,
        !.buffer_west_edge  = plan.new_buffer_west_edge_global_cell,
        !.buffer_east_edge  = plan.new_buffer_east_edge_global_cell]

commit_new_position(self, lon, lat, plan) ==
    [self EXCEPT
        !.center_global_cell_lon = from_degrees(lon, self.dem_tile_size),
        !.center_global_cell_lat = from_degrees(lat, self.dem_tile_size),
        !.buffer_north_edge = plan.new_buffer_north_edge_global_cell,
        !.buffer_south_edge = plan.new_buffer_south_edge_global_cell,
        !.buffer_west_edge  = plan.new_buffer_west_edge_global_cell,
        !.buffer_east_edge  = plan.new_buffer_east_edge_global_cell]

(***************************************************************************)
(* fill_missing_data_after_move                                            *)
(***************************************************************************)
\* fill_missing_data_after_move paging the strip in at the left edge whichever
\* way the block moved
fill_missing_data_after_move_at_left_edge(self) ==
    IF self.block_move = None
    THEN Panic(self, "No block move found")
    ELSE LET block_move == self.block_move[1]
         IN  IF block_move.dest_x0 = 0
             THEN update_buffer_area(self,
                                     0,
                                     0,
                                     self.buffer_width - block_move.block_width,
                                     self.buffer_height)
             ELSE update_buffer_area(self,
                                     0,
                                     0,
                                     block_move.dest_x0,
                                     self.buffer_height)

\* fill_missing_data_after_move taking the relocation out of the log
fill_missing_data_after_move_dropping_block_move(self) ==
    IF self.block_move = None
    THEN Panic(self, "No block move found")
    ELSE LET block_move == self.block_move[1]
             filled ==
                 IF block_move.dest_x0 = 0
                 THEN update_buffer_area(self,
                                         block_move.block_width,
                                         0,
                                         self.buffer_width - block_move.block_width,
                                         self.buffer_height)
                 ELSE update_buffer_area(self,
                                         0,
                                         0,
                                         block_move.dest_x0,
                                         self.buffer_height)
         IN  [filled EXCEPT !.block_move = None]

\* "Calculate the missing area based on the block move"
missing_area(self, block_move) ==
    IF block_move.dest_x0 = 0
    THEN [area_x |-> block_move.block_width,
          area_y |-> 0,
          area_width |-> self.buffer_width - block_move.block_width,
          area_height |-> self.buffer_height]
    ELSE [area_x |-> 0,
          area_y |-> 0,
          area_width |-> block_move.dest_x0,
          area_height |-> self.buffer_height]

fill_missing_data_after_move(self) ==
    IF self.block_move = None
    THEN Panic(self, "No block move found")
    ELSE IF self.block_move[1].dest_x0 = 0
    THEN update_buffer_area(self,
                            self.block_move[1].block_width,
                            0,
                            self.buffer_width - self.block_move[1].block_width,
                            self.buffer_height)
    ELSE update_buffer_area(self,
                            0,
                            0,
                            self.block_move[1].dest_x0,
                            self.buffer_height)

(***************************************************************************)
(* Inputs.  The caller builds lon and lat with Deg::new, so only degrees   *)
(* Deg::new accepts reach update_map_position.                             *)
(***************************************************************************)
\* whole cells around the origin, and a degree that is no whole number of cells
NearOrigin(max_cell) ==
    {2 * c : c \in -max_cell .. max_cell} \cup {-3}

\* centres next to the antimeridian, east and west of it
NearAntimeridian ==
    {MaxDegExclusive * 2 * DemTileSize - 2,
     MaxDegExclusive * 2 * DemTileSize - 4,
     -MaxDegExclusive * 2 * DemTileSize + 2}

LonInputs ==
    {h \in NearOrigin(MaxLonCell) \cup NearAntimeridian : DegNew(h, DemTileSize).ok}

\* a centre one buffer height north of the others
FarNorth == {2 * (MaxLatCell + BufferHeight)}

LatInputs ==
    {h \in NearOrigin(MaxLatCell) \cup FarNorth : DegNew(h, DemTileSize).ok}

VisibleAreas ==
    {<<SmallVisibleWidth, SmallVisibleHeight>>, <<BufferWidth, BufferHeight>>}

NoArg == [lon |-> 0, lat |-> 0, visible_area_width |-> 0, visible_area_height |-> 0]

(***************************************************************************)
(* The state machine.  pc is the position of the running call of           *)
(* update_map_position: "idle" between calls, "panicked" after a panic;    *)
(* arg holds the arguments of the running call, calls counts the calls.    *)
(* unit belongs to the second state machine, below, and rests here.        *)
(***************************************************************************)
NoUnit == [fn |-> "none", value |-> 0, dem_tile_size |-> 0,
           width |-> 0, height |-> 0, output |-> 0]

Init ==
    /\ dem_buffer = DemBufferNew(BufferWidth, BufferHeight, DemTileSize,
                                 MinCellDistance)
    /\ pc = "idle"
    /\ arg = NoArg
    /\ calls = 0
    /\ unit = NoUnit

\* update_decision without the test of the Uninitialized state
update_decision_ignoring_state(self, lon, lat, visible_area_width, visible_area_height) ==
    IF ~is_buffer_update_required(self, lon, lat, visible_area_width,
                                  visible_area_height)
    THEN "idle"
    ELSE IF has_intersection(partial_update_plan(self, lon, lat))
    THEN "move_dem_block"
    ELSE "reload_entire_buffer"

\* update_decision never choosing the partial update
update_decision_always_reloading(self, lon, lat, visible_area_width, visible_area_height) ==
    IF self.state = "Uninitialized"
    THEN "reload_entire_buffer"
    ELSE IF ~is_buffer_update_required(self, lon, lat, visible_area_width,
                                       visible_area_height)
    THEN "idle"
    ELSE "reload_entire_buffer"

\* Where a call goes after clear_update_log.
update_decision(self, lon, lat, visible_area_width, visible_area_height) ==
    IF self.state = "Uninitialized"
    THEN "reload_entire_buffer"
    ELSE IF ~is_buffer_update_required(self, lon, lat, visible_area_width,
                                       visible_area_height)
    THEN "idle"
    ELSE IF has_intersection(partial_update_plan(self, lon, lat))
    THEN "move_dem_block"
    ELSE "reload_entire_buffer"

\* update_map_position_entry recording the requested centre before deciding
update_map_position_entry_recording_center(self, lon, lat, visible_area_width, visible_area_height) ==
    LET cleared == [clear_update_log(self) EXCEPT
                       !.center_global_cell_lon =
                           from_degrees(lon, self.dem_tile_size),
                       !.center_global_cell_lat =
                           from_degrees(lat, self.dem_tile_size)]
    IN  [self |-> cleared,
         pc   |-> update_decision(cleared, lon, lat, visible_area_width,
                                  visible_area_height)]

\* The entry of update_map_position: clear_update_log, then the decision.
update_map_position_entry(self, lon, lat, visible_area_width, visible_area_height) ==
    LET cleared == clear_update_log(self)
    IN  [self |-> cleared,
         pc   |-> update_decision(cleared, lon, lat, visible_area_width,
                                  visible_area_height)]

\* The call; a call that needs no update returns at once.
update_map_position(lon, lat, visible_area_width, visible_area_height) ==
    /\ pc = "idle"
    /\ calls < MaxCalls
    /\ calls' = calls + 1
    /\ LET entry == update_map_position_entry(dem_buffer, lon, lat,
                                              visible_area_width,
                                              visible_area_height)
       IN  /\ dem_buffer' = entry.self
           /\ pc' = entry.pc
    /\ arg' = IF pc' = "idle"
              THEN NoArg
              ELSE [lon |-> lon, lat |-> lat,
                    visible_area_width |-> visible_area_width,
                    visible_area_height |-> visible_area_height]
    /\ UNCHANGED unit

Finish(self, next) ==
    /\ dem_buffer' = self
    /\ pc' = IF self.panic # "" THEN "panicked" ELSE next
    /\ arg' = IF pc' = "idle" THEN NoArg ELSE arg
    /\ UNCHANGED <<calls, unit>>

\* try_partial_update up to the end of move_dem_block
MoveDemBlock ==
    /\ pc = "move_dem_block"
    /\ LET plan == partial_update_plan(dem_buffer, arg.lon, arg.lat)
       IN  Finish(move_dem_block(dem_buffer, plan.source_x0, plan.source_y0,
                                 plan.block_width, plan.block_height,
                                 plan.dest_x0, plan.dest_y0),
                  "commit_new_position")

\* try_partial_update, the assignments of the centre and the edges
CommitNewPosition ==
    /\ pc = "commit_new_position"
    /\ Finish(commit_new_position(dem_buffer, arg.lon, arg.lat,
                                  partial_update_plan(dem_buffer, arg.lon, arg.lat)),
              "fill_missing_data_after_move")

\* try_partial_update, the page-in of the remainder, and the return
FillMissingDataAfterMove ==
    /\ pc = "fill_missing_data_after_move"
    /\ Finish(fill_missing_data_after_move(dem_buffer), "idle")

\* the full reload, and the return
ReloadEntireBuffer ==
    /\ pc = "reload_entire_buffer"
    /\ Finish(reload_entire_buffer(dem_buffer, arg.lon, arg.lat), "idle")

Call ==
    /\ pc = "idle"
    /\ calls < MaxCalls
    /\ \E lon \in LonInputs, lat \in LatInputs, visible \in VisibleAreas :
           update_map_position(lon, lat, visible[1], visible[2])

Next ==
    \/ Call
    \/ MoveDemBlock
    \/ CommitNewPosition
    \/ FillMissingDataAfterMove
    \/ ReloadEntireBuffer

Spec == Init /\ [][Next]_vars

(***************************************************************************)
(* The second state machine: the constructors and the conversions of       *)
(* types.rs and DemBuffer::new, each applied once to an input drawn by     *)
(* UnitInit.  unit.value is a Deg in half-cells for Deg::new and           *)
(* from_degrees, and a GlobalCell for the other conversions.               *)
(***************************************************************************)
TileSizes == 1 .. MaxTileSize

\* values around zero, the half-cells around both ends of (-181, 180), and
\* the cells around -181, -180 and 180 degrees
UnitValues(dem_tile_size) ==
    (-MaxValue .. MaxValue)
    \cup {MinDegExclusive * 2 * dem_tile_size + d : d \in -2 .. 2}
    \cup {MaxDegExclusive * 2 * dem_tile_size + d : d \in -2 .. 2}
    \cup {MinDegExclusive * dem_tile_size + d : d \in -2 .. 2}
    \cup {-MaxDegExclusive * dem_tile_size + d : d \in -2 .. 2}
    \cup {MaxDegExclusive * dem_tile_size + d : d \in -2 .. 2}
    \cup {I16Min + d : d \in 0 .. 2}
    \cup {I16Max - d : d \in 0 .. 2}

\* the second coordinate of a cell: both ends of the i16 range, zero and
\* its neighbours, and the latitudes of the tests of cell_key.rs
CellKeyCoordinates ==
    {I16Min, I16Min + 1, -180, -1, 0, 1, 195, 200, I16Max - 1, I16Max}

Dimensions == -1 .. MaxDimension

UnitInit ==
    /\ dem_buffer = DemBufferNew(BufferWidth, BufferHeight, DemTileSize,
                                 MinCellDistance)
    /\ pc = "idle"
    /\ arg = NoArg
    /\ calls = 0
    /\ \E dem_tile_size \in TileSizes, width \in Dimensions, height \in Dimensions :
          \E value \in UnitValues(dem_tile_size) :
              unit = [NoUnit EXCEPT !.value = value,
                                    !.dem_tile_size = dem_tile_size,
                                    !.width = width,
                                    !.height = height]

Apply(fn, output) ==
    /\ unit' = [unit EXCEPT !.fn = fn, !.output = output]
    /\ UNCHANGED <<dem_buffer, pc, arg, calls>>

ApplyDegNew ==
    /\ unit.fn = "none"
    /\ Apply("Deg::new", DegNew(unit.value, unit.dem_tile_size))

\* the argument is a Deg, so one that Deg::new has accepted
ApplyFromDegrees ==
    /\ unit.fn = "none"
    /\ DegNew(unit.value, unit.dem_tile_size).ok
    /\ Apply("GlobalCell::from_degrees",
             from_degrees(unit.value, unit.dem_tile_size))

ApplyToLocalCellLon ==
    /\ unit.fn = "none"
    /\ Apply("GlobalCell::to_local_cell_lon",
             to_local_cell_lon(unit.value, unit.dem_tile_size))

ApplyToLocalCellLat ==
    /\ unit.fn = "none"
    /\ Apply("GlobalCell::to_local_cell_lat",
             to_local_cell_lat(unit.value, unit.dem_tile_size))

ApplyToTileDegrees ==
    /\ unit.fn = "none"
    /\ Apply("GlobalCell::to_tile_degrees",
             to_tile_degrees(unit.value, unit.dem_tile_size))

\* from_cell_coords(x, y) and then to_cell_coords(), directly and with the
\* key passed through to_i32() and from_i32(); a panic of from_cell_coords
\* ends the round trip.
cell_key_round_trip(x, y) ==
    LET key == from_cell_coords(x, y)
    IN  IF ~key.ok
        THEN [ok |-> FALSE, y |-> y]
        ELSE [ok      |-> TRUE,
              y       |-> y,
              key     |-> key.value,
              coords  |-> to_cell_coords(key.value),
              via_i32 |-> to_cell_coords(from_i32(to_i32(key.value)))]

ApplyCellKeyRoundTrip ==
    /\ unit.fn = "none"
    /\ \E y \in CellKeyCoordinates :
          Apply("CellKey round trip", cell_key_round_trip(unit.value, y))

ApplyDemBufferNew ==
    /\ unit.fn = "none"
    /\ Apply("DemBuffer::new",
             DemBufferNew(unit.width, unit.height, unit.dem_tile_size,
                          MinCellDistance))

UnitNext ==
    \/ ApplyDegNew
    \/ ApplyFromDegrees
    \/ ApplyToLocalCellLon
    \/ ApplyToLocalCellLat
    \/ ApplyToTileDegrees
    \/ ApplyCellKeyRoundTrip
    \/ ApplyDemBufferNew

UnitSpec == UnitInit /\ [][UnitNext]_vars

(***************************************************************************)
(* The third state machine: the DemBuffer of the tests of dem_buffer.rs,   *)
(* DemBuffer::new(200, 200, 180, 30), and the calls those tests make.  A   *)
(* Deg is held in half-cells, so degrees * 2 * 180 truncated; the tests    *)
(* compute in f32, where 179.9 * 180 is 32381.998.                         *)
(***************************************************************************)
TestBufferSize == 200

TestDemTileSize == 180

TestMinCellDistance == 30

TestFullVisibleWidth == 200

TestFullVisibleHeight == 100

TestVisibleWidth == 80

TestVisibleHeight == 60

\* 7.65532 degrees: cell 1377
TestLon == 2755

\* 46.64649 degrees: cell 8396
TestLat == 16792

\* 179.9 degrees: cell 32381
TestLonDateline == 64763

\* 9.0 degrees
TestLonTooFar == 9 * 2 * TestDemTileSize

\* 8.0 degrees
TestLonRight == 8 * 2 * TestDemTileSize

\* 7.2 degrees: cell 1296
TestLonLeft == 2592

\* a lat_move of test_properties, in cells: a quarter of a degree
TestLatMove == 45

TestArg(lon, lat, visible_area_width, visible_area_height) ==
    [lon |-> lon, lat |-> lat,
     visible_area_width |-> visible_area_width,
     visible_area_height |-> visible_area_height]

TestCalls ==
    {TestArg(TestLon, TestLat, TestFullVisibleWidth, TestFullVisibleHeight),
     TestArg(TestLonDateline, TestLat, TestFullVisibleWidth, TestFullVisibleHeight),
     TestArg(TestLon, TestLat, TestVisibleWidth, TestVisibleHeight),
     TestArg(TestLonTooFar, TestLat, TestVisibleWidth, TestVisibleHeight),
     TestArg(TestLonRight, TestLat, TestVisibleWidth, TestVisibleHeight),
     TestArg(TestLonLeft, TestLat, TestVisibleWidth, TestVisibleHeight),
     TestArg(TestLon, TestLat + 2 * TestLatMove, TestVisibleWidth, TestVisibleHeight)}

ScenarioInit ==
    /\ dem_buffer = DemBufferNew(TestBufferSize, TestBufferSize,
                                 TestDemTileSize, TestMinCellDistance)
    /\ pc = "idle"
    /\ arg = NoArg
    /\ calls = 0
    /\ unit = NoUnit

ScenarioCall ==
    /\ pc = "idle"
    /\ calls < MaxCalls
    /\ \E a \in TestCalls :
           update_map_position(a.lon, a.lat, a.visible_area_width,
                               a.visible_area_height)

ScenarioNext ==
    \/ ScenarioCall
    \/ MoveDemBlock
    \/ CommitNewPosition
    \/ FillMissingDataAfterMove
    \/ ReloadEntireBuffer

ScenarioSpec == ScenarioInit /\ [][ScenarioNext]_vars

(***************************************************************************)
(* Vocabulary of the properties.                                           *)
(***************************************************************************)
\* every call made so far has returned
Returned == pc = "idle" /\ calls > 0

Columns == 0 .. (dem_buffer.buffer_width - 1)

Rows == 0 .. (dem_buffer.buffer_height - 1)

\* the global cell the buffer cell (x, y) decodes to
CellAt(x, y) == to_cell_coords(dem_buffer.data[y * dem_buffer.buffer_width + x + 1])

AllCellsSet == \A i \in DOMAIN dem_buffer.data : dem_buffer.data[i] # 0

\* the arguments a call can be made with
Args ==
    {[lon |-> lon, lat |-> lat,
      visible_area_width |-> visible[1], visible_area_height |-> visible[2]] :
        lon \in LonInputs, lat \in LatInputs, visible \in VisibleAreas}

\* this step is the call with the arguments a
CallWith(a) ==
    update_map_position(a.lon, a.lat, a.visible_area_width, a.visible_area_height)

\* this step is a call that returns at once, no update being required
NoOpCall == pc = "idle" /\ pc' = "idle"

\* this step is the return of a call that updated the buffer; arg holds the
\* arguments of that call
UpdateReturns == pc # "idle" /\ pc' = "idle"

\* the last call that returned was a partial update that paged cells in
PartialUpdateReturned ==
    /\ Returned
    /\ dem_buffer.block_move # None
    /\ \E i \in DOMAIN dem_buffer.slices_loaded :
          dem_buffer.slices_loaded[i].slice_width > 0

(***************************************************************************)
(* C1  Coverage: after every call of update_map_position that returns,     *)
(* every one of the width * height cells holds a non-zero value.           *)
(***************************************************************************)
C1_Coverage == Returned => AllCellsSet

(***************************************************************************)
(* C2  Neighbor consistency: after every call that returns, the east       *)
(* neighbour of every cell decodes to (lon + 1 wrapped at the              *)
(* antimeridian, same lat) and the south neighbour to (same lon, lat - 1). *)
(***************************************************************************)
WrapLon(v) ==
    IF v >= MaxDegExclusive * dem_buffer.dem_tile_size
    THEN v - FullCircle * dem_buffer.dem_tile_size
    ELSE v

C2_NeighborConsistency ==
    Returned =>
        \A x \in Columns, y \in Rows :
            /\ (x + 1) \in Columns =>
                  /\ CellAt(x + 1, y).x = WrapLon(CellAt(x, y).x + 1)
                  /\ CellAt(x + 1, y).y = CellAt(x, y).y
            /\ (y + 1) \in Rows =>
                  /\ CellAt(x, y + 1).x = CellAt(x, y).x
                  /\ CellAt(x, y + 1).y = CellAt(x, y).y - 1

(***************************************************************************)
(* C3  Center correctness: after every call that returns, the cell at      *)
(* (width / 2, height / 2) decodes to the recorded centre.                 *)
(***************************************************************************)
C3_CenterCorrectness ==
    Returned =>
        LET center == CellAt(RustDiv(dem_buffer.buffer_width, 2),
                             RustDiv(dem_buffer.buffer_height, 2))
        IN  /\ center.x = dem_buffer.center_global_cell_lon
            /\ center.y = dem_buffer.center_global_cell_lat

(***************************************************************************)
(* C4  No-op idempotence: a call repeated with the centre and the visible  *)
(* area of the call that has just returned leaves slices_loaded empty and  *)
(* block_move None.                                                        *)
(***************************************************************************)
\* what the call with the arguments a does to the buffer as this step leaves it
RepeatIsNoOp(a) ==
    LET again == update_map_position_entry(dem_buffer', a.lon, a.lat,
                                           a.visible_area_width,
                                           a.visible_area_height)
    IN  /\ again.pc = "idle"
        /\ again.self.slices_loaded = <<>>
        /\ again.self.block_move = None

\* the visible area, centred in the buffer, keeps the margin on all four sides
MarginSuffices(a) ==
    LET half_width  == RustDiv(dem_buffer.buffer_width, 2)
        half_height == RustDiv(dem_buffer.buffer_height, 2)
        visible_half_width  == RustDiv(a.visible_area_width, 2)
        visible_half_height == RustDiv(a.visible_area_height, 2)
        margin == dem_buffer.min_cell_distance_to_edge_before_refresh
    IN  /\ half_width - visible_half_width >= margin
        /\ (dem_buffer.buffer_width - half_width)
               - (a.visible_area_width - visible_half_width) >= margin
        /\ half_height - visible_half_height >= margin
        /\ (dem_buffer.buffer_height - half_height)
               - (a.visible_area_height - visible_half_height) >= margin

\* C4 as claimed: for every centre and every visible width and height.
C4_NoOpIdempotence_AnyVisibleArea ==
    [][/\ UpdateReturns => RepeatIsNoOp(arg)
       /\ NoOpCall => \A a \in Args : CallWith(a) => RepeatIsNoOp(a)]_vars

\* C4 as amended: for every centre, and every visible area that keeps the
\* margin to the edges of a buffer centred on it.
C4_NoOpIdempotence ==
    [][/\ UpdateReturns /\ MarginSuffices(arg) => RepeatIsNoOp(arg)
       /\ NoOpCall
             => \A a \in Args :
                    CallWith(a) /\ MarginSuffices(a) => RepeatIsNoOp(a)]_vars

\* a partial update at a centre has returned, and the same call again, with a
\* visible area that keeps the margin, needs no update
C4_Witness ==
    /\ PartialUpdateReturned
    /\ \E a \in Args :
          /\ from_degrees(a.lon, dem_buffer.dem_tile_size)
                 = dem_buffer.center_global_cell_lon
          /\ from_degrees(a.lat, dem_buffer.dem_tile_size)
                 = dem_buffer.center_global_cell_lat
          /\ MarginSuffices(a)
          /\ update_map_position_entry(dem_buffer, a.lon, a.lat,
                                       a.visible_area_width,
                                       a.visible_area_height).pc = "idle"

(***************************************************************************)
(* C5  Overwrite guard: set_cell is never invoked on a cell that already   *)
(* holds a populated value, in full reloads and in partial updates.        *)
(***************************************************************************)
C5_OverwriteGuard ==
    dem_buffer.panic # "Bug: Trying to overwrite an already occupied cell"

\* a partial update has relocated a block and paged cells in next to it
C5_Witness ==
    /\ PartialUpdateReturned
    /\ dem_buffer.block_move[1].block_width > 0
    /\ dem_buffer.block_move[1].block_height > 0

(***************************************************************************)
(* C6  The first call on an Uninitialized buffer is a full reload: it goes *)
(* straight to reload_entire_buffer, and when that returns block_move is   *)
(* None, the slices cover the whole buffer and state is Initialized.       *)
(***************************************************************************)
\* the buffer cell (x, y) lies in the slice
InSlice(slice, x, y) ==
    /\ slice.slice_buffer_x0 <= x
    /\ x < slice.slice_buffer_x0 + slice.slice_width
    /\ slice.slice_buffer_y0 <= y
    /\ y < slice.slice_buffer_y0 + slice.slice_height

SlicesCoverBuffer(self) ==
    \A x \in 0 .. (self.buffer_width - 1), y \in 0 .. (self.buffer_height - 1) :
        \E i \in DOMAIN self.slices_loaded : InSlice(self.slices_loaded[i], x, y)

C6_FirstCallIsFullReload ==
    [][/\ (pc = "idle" /\ dem_buffer.state = "Uninitialized")
              => pc' = "reload_entire_buffer"
       /\ (/\ pc = "reload_entire_buffer"
           /\ dem_buffer.state = "Uninitialized"
           /\ pc' = "idle")
              => /\ dem_buffer'.state = "Initialized"
                 /\ dem_buffer'.block_move = None
                 /\ SlicesCoverBuffer(dem_buffer')]_vars

\* the first call has returned
C6_Witness ==
    /\ Returned
    /\ calls = 1
    /\ dem_buffer.state = "Initialized"
    /\ dem_buffer.slices_loaded # <<>>

(***************************************************************************)
(* C7  State lifecycle: the buffer starts Uninitialized, every call that   *)
(* returns leaves it Initialized, and an Initialized buffer never becomes  *)
(* Uninitialized again.                                                    *)
(***************************************************************************)
C7_StateLifecycle ==
    /\ dem_buffer.state = "Uninitialized"
    /\ [][/\ pc' = "idle" => dem_buffer'.state = "Initialized"
          /\ dem_buffer.state = "Initialized"
                 => dem_buffer'.state = "Initialized"]_vars

\* a second call has returned on the Initialized buffer
C7_Witness ==
    /\ Returned
    /\ calls >= 2
    /\ dem_buffer.state = "Initialized"

(***************************************************************************)
(* C8  No mutation when no update is required: on an Initialized buffer a  *)
(* call whose update decision is "not required" leaves the cells, the four *)
(* edges, the recorded centre and the state unchanged, slices_loaded empty *)
(* and block_move None.                                                    *)
(***************************************************************************)
C8_NoMutationWhenNotRequired ==
    [][(pc = "idle" /\ dem_buffer.state = "Initialized")
          => \* a call that goes on to update had a decision of "required" ...
             /\ pc' # "idle"
                   => is_buffer_update_required(dem_buffer, arg'.lon, arg'.lat,
                                                arg'.visible_area_width,
                                                arg'.visible_area_height)
             \* ... and every other call returns at once, nothing touched
             /\ NoOpCall
                   => /\ dem_buffer'.data = dem_buffer.data
                      /\ dem_buffer'.buffer_west_edge = dem_buffer.buffer_west_edge
                      /\ dem_buffer'.buffer_east_edge = dem_buffer.buffer_east_edge
                      /\ dem_buffer'.buffer_north_edge
                             = dem_buffer.buffer_north_edge
                      /\ dem_buffer'.buffer_south_edge
                             = dem_buffer.buffer_south_edge
                      /\ dem_buffer'.center_global_cell_lon
                             = dem_buffer.center_global_cell_lon
                      /\ dem_buffer'.center_global_cell_lat
                             = dem_buffer.center_global_cell_lat
                      /\ dem_buffer'.state = dem_buffer.state
                      /\ dem_buffer'.slices_loaded = <<>>
                      /\ dem_buffer'.block_move = None]_vars

\* a call on the Initialized buffer has returned without loading anything,
\* and a call for another centre than the recorded one would do the same
C8_Witness ==
    /\ Returned
    /\ calls >= 2
    /\ dem_buffer.slices_loaded = <<>>
    /\ dem_buffer.block_move = None
    /\ \E a \in Args :
          /\ from_degrees(a.lon, dem_buffer.dem_tile_size)
                 # dem_buffer.center_global_cell_lon
          /\ ~is_buffer_update_required(dem_buffer, a.lon, a.lat,
                                        a.visible_area_width,
                                        a.visible_area_height)

(***************************************************************************)
(* C9  Update decision: an update is required exactly when one of the four *)
(* distances visible_west - buffer_west, buffer_east - visible_east,       *)
(* buffer_north - visible_north, visible_south - buffer_south is strictly  *)
(* less than min_cell_distance_to_edge_before_refresh; deciding does not   *)
(* modify the buffer.                                                      *)
(***************************************************************************)
SomeDistanceBelowMargin(self, a) ==
    LET cw == from_degrees(a.lon, self.dem_tile_size)
        cl == from_degrees(a.lat, self.dem_tile_size)
        visible_west  == cw - RustDiv(a.visible_area_width, 2)
        visible_east  == visible_west + a.visible_area_width
        visible_north == cl + RustDiv(a.visible_area_height, 2)
        visible_south == visible_north - a.visible_area_height
    IN  \E distance \in {visible_west - self.buffer_west_edge,
                         self.buffer_east_edge - visible_east,
                         self.buffer_north_edge - visible_north,
                         visible_south - self.buffer_south_edge} :
            distance < self.min_cell_distance_to_edge_before_refresh

C9_UpdateDecision ==
    [][(pc = "idle" /\ dem_buffer.state = "Initialized")
          => /\ pc' # "idle" => SomeDistanceBelowMargin(dem_buffer, arg')
             /\ NoOpCall
                   => \A a \in Args :
                          CallWith(a) => ~SomeDistanceBelowMargin(dem_buffer, a)
             /\ dem_buffer' = [dem_buffer EXCEPT !.slices_loaded = <<>>,
                                                 !.block_move = None]]_vars

\* an update has been found required on the Initialized buffer because of
\* its south side alone
C9_Witness ==
    /\ pc \in {"move_dem_block", "reload_entire_buffer"}
    /\ dem_buffer.state = "Initialized"
    /\ SomeDistanceBelowMargin(dem_buffer, arg)
    /\ ~is_buffer_update_required_no_south(dem_buffer, arg.lon, arg.lat,
                                           arg.visible_area_width,
                                           arg.visible_area_height)

(***************************************************************************)
(* C10  Per-call log: both slices_loaded and block_move are cleared at the *)
(* start of every call; within a call slices_loaded only grows by the      *)
(* slices the call loads, for the buffer position of that call, and        *)
(* block_move is the relocation of that call.                              *)
(***************************************************************************)
IsPrefix(s, t) ==
    /\ Len(s) <= Len(t)
    /\ \A i \in DOMAIN s : s[i] = t[i]

\* the slice names the tile cell that the buffer position of the slice has
\* under the edges of the buffer
SliceMatchesEdges(self, slice) ==
    /\ slice.slice_tile_x0
           = (self.buffer_west_edge + slice.slice_buffer_x0) % self.dem_tile_size
    /\ slice.slice_tile_y0
           = self.dem_tile_size - 1
               - ((self.buffer_north_edge - slice.slice_buffer_y0)
                      % self.dem_tile_size)

C11_BlockMoveIffPartialUpdate ==
    [][/\ NoOpCall => dem_buffer'.block_move = None
       /\ (pc = "reload_entire_buffer" /\ pc' = "idle")
             => dem_buffer'.block_move = None
       /\ (pc = "fill_missing_data_after_move" /\ pc' = "idle")
             => dem_buffer'.block_move # None
       /\ Len(dem_buffer'.block_move) <= 1]_vars

\* a full reload of an Initialized buffer has returned
C11_Witness ==
    /\ Returned
    /\ calls >= 2
    /\ dem_buffer.block_move = None
    /\ SlicesCoverBuffer(dem_buffer)

(***************************************************************************)
(* C12  Full reload versus partial update: when an update is required on   *)
(* an Initialized buffer, the call reloads the whole buffer exactly when   *)
(* the intersection of the old and the new coverage (west = max of wests,  *)
(* east = min of easts, north = min of norths, south = max of souths) has  *)
(* a negative width or a negative height, and performs a partial update    *)
(* otherwise; when the reload starts the buffer is as the call found it.   *)
(***************************************************************************)
\* the coverage of a buffer centred on the arguments a
TargetCoverage(self, a) ==
    LET west  == from_degrees(a.lon, self.dem_tile_size)
                     - RustDiv(self.buffer_width, 2)
        north == from_degrees(a.lat, self.dem_tile_size)
                     + RustDiv(self.buffer_height, 2)
    IN  [west |-> west, east |-> west + self.buffer_width,
         north |-> north, south |-> north - self.buffer_height]

IntersectionWidth(self, a) ==
    Min(self.buffer_east_edge, TargetCoverage(self, a).east)
        - Max(self.buffer_west_edge, TargetCoverage(self, a).west)

IntersectionHeight(self, a) ==
    Min(self.buffer_north_edge, TargetCoverage(self, a).north)
        - Max(self.buffer_south_edge, TargetCoverage(self, a).south)

NoOverlap(self, a) ==
    IntersectionWidth(self, a) < 0 \/ IntersectionHeight(self, a) < 0

C12_ReloadIffNoOverlap ==
    [][(pc = "idle" /\ dem_buffer.state = "Initialized" /\ pc' # "idle")
          => /\ pc' = "reload_entire_buffer" <=> NoOverlap(dem_buffer, arg')
             /\ pc' = "move_dem_block" <=> ~NoOverlap(dem_buffer, arg')
             /\ pc' = "reload_entire_buffer"
                   => dem_buffer' = [dem_buffer EXCEPT !.slices_loaded = <<>>,
                                                       !.block_move = None]]_vars

\* a full reload is about to start on an Initialized buffer whose coverage
\* does not overlap the target coverage
C12_Witness ==
    /\ pc = "reload_entire_buffer"
    /\ dem_buffer.state = "Initialized"
    /\ IntersectionWidth(dem_buffer, arg) >= 0
    /\ IntersectionHeight(dem_buffer, arg) < 0

(***************************************************************************)
(* C13  Horizontal partial update: after a partial update for a move east  *)
(* or west with the latitude cell unchanged, whatever the distance and the *)
(* place of the exposed strip relative to the tile boundaries, the centre  *)
(* cell is correct, all cells are set and all cells are good neighbours.   *)
(***************************************************************************)
\* the call that returned last relocated a block over the full height and
\* left it in its rows: a move along the latitude
HorizontalPartialUpdateReturned ==
    /\ Returned
    /\ dem_buffer.block_move # None
    /\ dem_buffer.block_move[1].block_height = dem_buffer.buffer_height
    /\ dem_buffer.block_move[1].source_y0 = dem_buffer.block_move[1].dest_y0
    /\ dem_buffer.block_move[1].source_x0 # dem_buffer.block_move[1].dest_x0

C13_HorizontalPartialUpdate ==
    HorizontalPartialUpdateReturned
        => /\ C3_CenterCorrectness
           /\ AllCellsSet
           /\ C2_NeighborConsistency

(***************************************************************************)
(* C14  Antimeridian: for every valid centre whose coverage straddles the  *)
(* +/-180 degree meridian, east or west of it, the first call completes    *)
(* without an internal failure, and the buffer it leaves has a correct     *)
(* centre cell, all cells set and all cells good neighbours, the longitude *)
(* wrapping around.                                                        *)
(***************************************************************************)
\* the antimeridian in cells, on the east and on the west side
Antimeridian == MaxDegExclusive * dem_buffer.dem_tile_size

\* the coverage [west, east) has cells on both sides of the antimeridian
StraddlesAntimeridian ==
    \/ dem_buffer.buffer_west_edge < Antimeridian
           /\ Antimeridian < dem_buffer.buffer_east_edge
    \/ dem_buffer.buffer_west_edge < -Antimeridian
           /\ -Antimeridian < dem_buffer.buffer_east_edge

\* the first call has ended, by a return or by a panic
FirstCallOver == calls = 1 /\ pc \in {"idle", "panicked"}

C14_Antimeridian ==
    (FirstCallOver /\ StraddlesAntimeridian)
        => /\ pc = "idle"
           /\ C3_CenterCorrectness
           /\ AllCellsSet
           /\ C2_NeighborConsistency

(***************************************************************************)
(* C15  Failure atomicity: a call on an Initialized buffer that aborts     *)
(* leaves the buffer as the call found it (array, edges, centre), or no    *)
(* longer marked Initialized; never marked Initialized with the array      *)
(* cleared or partly filled and the edges and the centre overwritten.      *)
(* A call that aborts in the reload or in the relocation of the block is   *)
(* compared with the buffer that step started from, which is the buffer    *)
(* the call found; one that aborts later has already moved the block.      *)
(***************************************************************************)
\* this step aborts a call that was made on an Initialized buffer
CallAborts ==
    /\ pc \notin {"idle", "panicked"}
    /\ dem_buffer.state = "Initialized"
    /\ pc' = "panicked"

\* the step leaves the array, the edges and the centre as they were
BufferAsFound ==
    /\ pc \in {"reload_entire_buffer", "move_dem_block"}
    /\ dem_buffer'.data = dem_buffer.data
    /\ dem_buffer'.buffer_west_edge  = dem_buffer.buffer_west_edge
    /\ dem_buffer'.buffer_east_edge  = dem_buffer.buffer_east_edge
    /\ dem_buffer'.buffer_north_edge = dem_buffer.buffer_north_edge
    /\ dem_buffer'.buffer_south_edge = dem_buffer.buffer_south_edge
    /\ dem_buffer'.center_global_cell_lon = dem_buffer.center_global_cell_lon
    /\ dem_buffer'.center_global_cell_lat = dem_buffer.center_global_cell_lat

C15_FailureAtomicity ==
    [][CallAborts
          => BufferAsFound \/ dem_buffer'.state # "Initialized"]_vars

(***************************************************************************)
(* C16  Configuration errors: DemBuffer::new with a width or a height that *)
(* is not positive fails and produces no buffer.                           *)
(***************************************************************************)
C16_NonPositiveDimensionsRejected ==
    (unit.fn = "DemBuffer::new" /\ (unit.width <= 0 \/ unit.height <= 0))
        => unit.output.panic # ""

(***************************************************************************)
(* C17  Deg::new(v) fails, producing no Deg and clamping nothing, for      *)
(* every v outside the open interval (-181, 180), and succeeds with the    *)
(* value unmodified for every v inside it.                                 *)
(***************************************************************************)
\* unit.value half-cells are strictly between -181 and 180 degrees
InsideOpenInterval ==
    /\ unit.value > MinDegExclusive * 2 * unit.dem_tile_size
    /\ unit.value < MaxDegExclusive * 2 * unit.dem_tile_size

C17_DegNewRange ==
    unit.fn = "Deg::new"
        => /\ InsideOpenInterval
                 => unit.output.ok /\ unit.output.value = unit.value
           /\ ~InsideOpenInterval => ~unit.output.ok

\* Deg::new has rejected 180 degrees, the excluded end of the interval
C17_Witness ==
    /\ unit.fn = "Deg::new"
    /\ unit.value = MaxDegExclusive * 2 * unit.dem_tile_size
    /\ ~unit.output.ok

(***************************************************************************)
(* C18  GlobalCell::from_degrees(deg, dem_tile_size) is the mathematical   *)
(* floor of deg * dem_tile_size for every valid degree, also when the      *)
(* product is negative and not whole (rounding toward minus infinity).     *)
(***************************************************************************)
\* unit.value half-cells are deg * dem_tile_size = unit.value / 2 cells
C18_FromDegreesIsFloor ==
    unit.fn = "GlobalCell::from_degrees" => unit.output = unit.value \div 2

(***************************************************************************)
(* C19  For every GlobalCell value v, negative, zero or positive, and      *)
(* every dem_tile_size > 0, to_local_cell_lon returns the true modulo      *)
(* v mod dem_tile_size, which lies in [0, dem_tile_size).                  *)
(***************************************************************************)
C19_LocalCellLonIsModulo ==
    unit.fn = "GlobalCell::to_local_cell_lon"
        => /\ unit.output = unit.value % unit.dem_tile_size
           /\ unit.output \in 0 .. (unit.dem_tile_size - 1)

\* a negative value that is no multiple of the tile size has been converted
C19_Witness ==
    /\ unit.fn = "GlobalCell::to_local_cell_lon"
    /\ unit.value < 0
    /\ unit.output # 0

(***************************************************************************)
(* C20  For every GlobalCell value v and every dem_tile_size > 0,          *)
(* to_local_cell_lat returns dem_tile_size - 1 - (v mod dem_tile_size)     *)
(* with the true modulo, for negative v as for the others; the result lies *)
(* in [0, dem_tile_size), grows by one when v decreases by one inside a    *)
(* tile, and is 0 for -1 and dem_tile_size - 1 for -dem_tile_size.         *)
(***************************************************************************)
C20_LocalCellLatIsMirroredModulo ==
    unit.fn = "GlobalCell::to_local_cell_lat"
        => /\ unit.output
                  = unit.dem_tile_size - 1 - (unit.value % unit.dem_tile_size)
           /\ unit.output \in 0 .. (unit.dem_tile_size - 1)
           \* v - 1 is in the tile of v unless v is the south row of its tile
           /\ unit.value % unit.dem_tile_size # 0
                 => to_local_cell_lat(unit.value - 1, unit.dem_tile_size)
                        = unit.output + 1
           /\ unit.value = -1 => unit.output = 0
           /\ unit.value = -unit.dem_tile_size
                 => unit.output = unit.dem_tile_size - 1

\* the south row of the first tile below zero has been converted
C20_Witness ==
    /\ unit.fn = "GlobalCell::to_local_cell_lat"
    /\ unit.dem_tile_size > 1
    /\ unit.value = -unit.dem_tile_size
    /\ unit.output = unit.dem_tile_size - 1

(***************************************************************************)
(* C21  For every GlobalCell value v that can be a buffer column, the      *)
(* columns beyond +180 and beyond -180 degrees included, to_tile_degrees   *)
(* returns v / dem_tile_size when that lies in (-180, 180] and otherwise   *)
(* that value renormalised by 360 into (-180, 180], so that its floor is   *)
(* a valid tile longitude.                                                 *)
(***************************************************************************)
\* The columns of a buffer of BufferWidth columns whose centre is the cell
\* of a valid longitude: centre - width / 2 up to centre - width / 2 + width.
ReachableColumns(dem_tile_size) ==
    (from_degrees(MinDegExclusive * 2 * dem_tile_size + 1, dem_tile_size)
         - RustDiv(BufferWidth, 2))
    .. (from_degrees(MaxDegExclusive * 2 * dem_tile_size - 1, dem_tile_size)
         - RustDiv(BufferWidth, 2) + BufferWidth)

\* h half-cells renormalised by whole turns into (-180, 180] degrees
Renormalised(h, dem_tile_size) ==
    LET turn == FullCircle * 2 * dem_tile_size
        half == MaxDegExclusive * 2 * dem_tile_size
    IN  half - ((half - h) % turn)

TileLongitudes == (-MaxDegExclusive) .. (MaxDegExclusive - 1)

C21_ToTileDegreesRenormalises ==
    (/\ unit.fn = "GlobalCell::to_tile_degrees"
     /\ unit.value \in ReachableColumns(unit.dem_tile_size))
        => /\ unit.output.ok
           /\ unit.output.value = Renormalised(2 * unit.value, unit.dem_tile_size)
           /\ to_int_floor(unit.output.value, unit.dem_tile_size) \in TileLongitudes

(***************************************************************************)
(* C22  CellKey round trip: for every pair of GlobalCells (x, y) with both *)
(* values strictly between i16::MIN and i16::MAX, negative values          *)
(* included, from_cell_coords(x, y).to_cell_coords() returns exactly       *)
(* (x, y), and so it does when the key is passed through to_i32 and        *)
(* from_i32.                                                               *)
(***************************************************************************)
RoundTripApplied == unit.fn = "CellKey round trip"

Returns(coords, x, y) == coords.ok /\ coords.x = x /\ coords.y = y

C22_CellKeyRoundTrip ==
    (/\ RoundTripApplied
     /\ ~CoordsOutOfBounds(unit.value, unit.output.y))
        => /\ unit.output.ok
           /\ Returns(unit.output.coords, unit.value, unit.output.y)
           /\ Returns(unit.output.via_i32, unit.value, unit.output.y)

\* the round trip of the most negative pair of coordinates
C22_Witness ==
    /\ RoundTripApplied
    /\ unit.value = I16Min + 1
    /\ unit.output.y = I16Min + 1
    /\ unit.output.ok
    /\ Returns(unit.output.via_i32, I16Min + 1, I16Min + 1)

(***************************************************************************)
(* Vocabulary of the scenarios of the tests.                               *)
(***************************************************************************)
CentredAt(self, lon, lat) ==
    /\ self.center_global_cell_lon = from_degrees(lon, self.dem_tile_size)
    /\ self.center_global_cell_lat = from_degrees(lat, self.dem_tile_size)

\* the first call was made at 7.65532, 46.64649 and has returned
FirstTestCallReturned ==
    /\ calls = 1
    /\ pc = "idle"
    /\ CentredAt(dem_buffer, TestLon, TestLat)

\* the second call of a test, at the longitude lon
SecondTestCall(lon) ==
    TestArg(lon, TestLat, TestVisibleWidth, TestVisibleHeight)

\* the second call, made at the longitude lon, is running or has panicked
InSecondTestCall(lon) == calls = 2 /\ arg = SecondTestCall(lon)

\* the second call, made at the longitude lon, has returned
SecondTestCallReturned(lon) ==
    /\ calls = 2
    /\ pc = "idle"
    /\ CentredAt(dem_buffer, lon, TestLat)

InPartialUpdate ==
    pc \in {"move_dem_block", "commit_new_position",
            "fill_missing_data_after_move"}

\* the tiles of the slices loaded, in the order of loading
TilesLoaded(self) ==
    [i \in DOMAIN self.slices_loaded |->
        <<self.slices_loaded[i].tile_key.lon, self.slices_loaded[i].tile_key.lat>>]

\* every slice loaded lies in the columns x0 .. x1 - 1 of the buffer
SlicesInColumns(self, x0, x1) ==
    \A i \in DOMAIN self.slices_loaded :
        /\ self.slices_loaded[i].slice_buffer_x0 >= x0
        /\ self.slices_loaded[i].slice_buffer_x0
               + self.slices_loaded[i].slice_width <= x1

\* the columns between the centres of two longitudes
ColumnsBetween(lon_from, lon_to) ==
    from_degrees(lon_to, TestDemTileSize) - from_degrees(lon_from, TestDemTileSize)

(***************************************************************************)
(* C23  Scenario 1 (buffer 200 x 200, tile size 180, margin 30): the first *)
(* call at lon = 7.65532, lat = 46.64649 is a full reload that records     *)
(* exactly 4 tile slices, for the tiles (7,47), (8,47), (7,46), (8,46) in  *)
(* that order, and block_move = None.                                      *)
(***************************************************************************)
C23_Scenario1 ==
    [][/\ (/\ calls = 0
           /\ \E a \in TestCalls :
                 a.lon = TestLon /\ a.lat = TestLat /\ CallWith(a))
              => pc' = "reload_entire_buffer"
       /\ (/\ calls = 1
           /\ pc = "reload_entire_buffer"
           /\ arg.lon = TestLon
           /\ arg.lat = TestLat)
              => /\ pc' = "idle"
                 /\ dem_buffer'.state = "Initialized"
                 /\ TilesLoaded(dem_buffer')
                        = << <<7, 47>>, <<8, 47>>, <<7, 46>>, <<8, 46>> >>
                 /\ dem_buffer'.block_move = None]_vars

C23_Witness ==
    /\ FirstTestCallReturned
    /\ Len(dem_buffer.slices_loaded) = 4
    /\ dem_buffer.block_move = None

(***************************************************************************)
(* C24  Scenario 4 (buffer 200 x 200, tile size 180, margin 30, visible    *)
(* 80 x 60): after a first call at lon = 7.65532, lat = 46.64649, a call   *)
(* at lon = 8.0 with the same latitude is a partial update with a block    *)
(* move that is not None and exactly 2 newly loaded slices, the exposed    *)
(* east strip split between the northern and the southern tile only.       *)
(***************************************************************************)
C24_Scenario4 ==
    /\ [][(FirstTestCallReturned /\ CallWith(SecondTestCall(TestLonRight)))
             => pc' = "move_dem_block"]_vars
    /\ [](FirstTestCallReturned
            => [](/\ InSecondTestCall(TestLonRight) => InPartialUpdate
                  /\ SecondTestCallReturned(TestLonRight)
                        => /\ dem_buffer.block_move # None
                           /\ TilesLoaded(dem_buffer) = << <<8, 47>>, <<8, 46>> >>
                           /\ SlicesInColumns(
                                  dem_buffer,
                                  TestBufferSize
                                      - ColumnsBetween(TestLon, TestLonRight),
                                  TestBufferSize)))

C24_Witness ==
    /\ SecondTestCallReturned(TestLonRight)
    /\ dem_buffer.block_move # None
    /\ dem_buffer.block_move[1].source_x0 = ColumnsBetween(TestLon, TestLonRight)
    /\ Len(dem_buffer.slices_loaded) = 2

(***************************************************************************)
(* C25  Scenario 5 (buffer 200 x 200, tile size 180, margin 30, visible    *)
(* 80 x 60): after a first call at lon = 7.65532, lat = 46.64649, a call   *)
(* at lon = 7.2 with the same latitude is a partial update with a block    *)
(* move that is not None and exactly 4 newly loaded slices, the exposed    *)
(* west strip split across four tile quadrants.                            *)
(***************************************************************************)
C25_Scenario5 ==
    /\ [][(FirstTestCallReturned /\ CallWith(SecondTestCall(TestLonLeft)))
             => pc' = "move_dem_block"]_vars
    /\ [](FirstTestCallReturned
            => [](/\ InSecondTestCall(TestLonLeft) => InPartialUpdate
                  /\ SecondTestCallReturned(TestLonLeft)
                        => /\ dem_buffer.block_move # None
                           /\ TilesLoaded(dem_buffer)
                                  = << <<6, 47>>, <<7, 47>>, <<6, 46>>, <<7, 46>> >>
                           /\ SlicesInColumns(
                                  dem_buffer, 0,
                                  ColumnsBetween(TestLonLeft, TestLon))))

C25_Witness ==
    /\ SecondTestCallReturned(TestLonLeft)
    /\ dem_buffer.block_move # None
    /\ dem_buffer.block_move[1].dest_x0 = ColumnsBetween(TestLonLeft, TestLon)
    /\ Len(dem_buffer.slices_loaded) = 4

(***************************************************************************)
(* C26  Edge and centre commitment: after every call of                    *)
(* update_map_position that changes the buffer, by a full reload or by a   *)
(* partial update, for the centre (lon, lat), the recorded centre is       *)
(* (from_degrees(lon), from_degrees(lat)) and the edges are                *)
(* west = centre_lon - width / 2, east = west + width,                     *)
(* north = centre_lat + height / 2, south = north - height; so             *)
(* east - west = width and north - south = height in every Initialized     *)
(* state.                                                                  *)
(***************************************************************************)
EdgesAround(self) ==
    /\ self.buffer_west_edge
           = self.center_global_cell_lon - RustDiv(self.buffer_width, 2)
    /\ self.buffer_east_edge = self.buffer_west_edge + self.buffer_width
    /\ self.buffer_north_edge
           = self.center_global_cell_lat + RustDiv(self.buffer_height, 2)
    /\ self.buffer_south_edge = self.buffer_north_edge - self.buffer_height

C26_EdgeCenterCommitment ==
    /\ [][UpdateReturns
             => /\ CentredAt(dem_buffer', arg.lon, arg.lat)
                /\ EdgesAround(dem_buffer')]_vars
    /\ [](dem_buffer.state = "Initialized"
            => /\ dem_buffer.buffer_east_edge - dem_buffer.buffer_west_edge
                      = dem_buffer.buffer_width
               /\ dem_buffer.buffer_north_edge - dem_buffer.buffer_south_edge
                      = dem_buffer.buffer_height)

\* a partial update has returned, the centre moved off the first one
C26_Witness ==
    /\ Returned
    /\ calls = 2
    /\ dem_buffer.block_move # None
    /\ dem_buffer.block_move[1].dest_x0 # dem_buffer.block_move[1].source_x0
    /\ dem_buffer.state = "Initialized"
    /\ EdgesAround(dem_buffer)

(***************************************************************************)
(* C27  Block relocation: in a partial update the recorded BlockMove has   *)
(* source = intersection minus the old west and north edges and            *)
(* dest = intersection minus the new west and north edges; after           *)
(* move_dem_block every cell (dest_x0 + i, dest_y0 + j) with               *)
(* 0 <= i < block_width, 0 <= j < block_height holds the value the cell    *)
(* (source_x0 + i, source_y0 + j) held before the call, and every cell     *)
(* outside the destination rectangle holds the sentinel until it is paged  *)
(* in.                                                                     *)
(***************************************************************************)
\* the value of the cell (x, y) of the buffer self
ValueAt(self, x, y) == self.data[y * self.buffer_width + x + 1]

\* the block the partial update to (lon, lat) has to move, from the edges
IntersectionBlock(self, lon, lat) ==
    LET new_west  == from_degrees(lon, self.dem_tile_size)
                         - RustDiv(self.buffer_width, 2)
        new_north == from_degrees(lat, self.dem_tile_size)
                         + RustDiv(self.buffer_height, 2)
        west  == Max(self.buffer_west_edge, new_west)
        east  == Min(self.buffer_east_edge, new_west + self.buffer_width)
        north == Min(self.buffer_north_edge, new_north)
        south == Max(self.buffer_south_edge, new_north - self.buffer_height)
    IN  [source_x0 |-> west - self.buffer_west_edge,
         source_y0 |-> self.buffer_north_edge - north,
         block_width |-> east - west,
         block_height |-> north - south,
         dest_x0 |-> west - new_west,
         dest_y0 |-> new_north - north]

InDestination(bm, x, y) ==
    /\ bm.dest_x0 <= x
    /\ x < bm.dest_x0 + bm.block_width
    /\ bm.dest_y0 <= y
    /\ y < bm.dest_y0 + bm.block_height

\* after is before with the block bm relocated and everything else cleared
Relocated(before, after, bm) ==
    \A x \in Columns, y \in Rows :
        ValueAt(after, x, y)
            = IF InDestination(bm, x, y)
              THEN ValueAt(before, x - bm.dest_x0 + bm.source_x0,
                           y - bm.dest_y0 + bm.source_y0)
              ELSE 0

C27_BlockRelocation ==
    [][/\ pc = "move_dem_block"
          => /\ pc' = "commit_new_position"
             /\ dem_buffer'.block_move
                    = Some(IntersectionBlock(dem_buffer, arg.lon, arg.lat))
             /\ Relocated(dem_buffer, dem_buffer',
                          IntersectionBlock(dem_buffer, arg.lon, arg.lat))
       /\ pc = "commit_new_position"
          => dem_buffer'.data = dem_buffer.data]_vars

\* a block of cells that are set has been moved to another place
C27_Witness ==
    /\ pc = "commit_new_position"
    /\ dem_buffer.block_move # None
    /\ dem_buffer.block_move[1].block_width > 0
    /\ dem_buffer.block_move[1].block_height > 0
    /\ dem_buffer.block_move[1].dest_x0 # dem_buffer.block_move[1].source_x0
    /\ ValueAt(dem_buffer, dem_buffer.block_move[1].dest_x0,
               dem_buffer.block_move[1].dest_y0) # 0

(***************************************************************************)
(* C28  Ordering inside a partial update: the edges and the recorded       *)
(* centre of the buffer keep their old values while the overlap block is   *)
(* being relocated, are switched to the new values only after the block    *)
(* copy has completed, and are already the new values when the first       *)
(* remainder slice is paged in.                                            *)
(***************************************************************************)
Position(self) ==
    <<self.center_global_cell_lon, self.center_global_cell_lat,
      self.buffer_west_edge, self.buffer_east_edge,
      self.buffer_north_edge, self.buffer_south_edge>>

C28_PartialUpdateOrdering ==
    /\ [][/\ (pc' = "move_dem_block" \/ pc = "move_dem_block")
                => Position(dem_buffer') = Position(dem_buffer)
          /\ pc = "commit_new_position"
                => /\ dem_buffer.block_move # None
                   /\ dem_buffer'.data = dem_buffer.data
                   /\ CentredAt(dem_buffer', arg.lon, arg.lat)
                   /\ EdgesAround(dem_buffer')
          /\ pc = "fill_missing_data_after_move"
                => Position(dem_buffer') = Position(dem_buffer)]_vars
    /\ [](pc = "fill_missing_data_after_move"
            => /\ dem_buffer.slices_loaded = <<>>
               /\ CentredAt(dem_buffer, arg.lon, arg.lat)
               /\ EdgesAround(dem_buffer))

\* the block is relocated, the position is switched, nothing is paged in yet
C28_Witness ==
    /\ pc = "fill_missing_data_after_move"
    /\ dem_buffer.block_move # None
    /\ dem_buffer.block_move[1].dest_x0 # dem_buffer.block_move[1].source_x0
    /\ dem_buffer.slices_loaded = <<>>
    /\ CentredAt(dem_buffer, arg.lon, arg.lat)

(***************************************************************************)
(* C29  Tiling is an exact cover: for every rectangular area               *)
(* (area_x, area_y, area_width, area_height) inside the buffer, the areas  *)
(* whose left edge area_x is greater than 0 included, the slices emitted   *)
(* by one run of update_buffer_area are pairwise disjoint, lie inside the  *)
(* area, and their union is exactly the area, emitted in row-major order.  *)
(***************************************************************************)
Rectangle(x0, y0, width, height) ==
    (x0 .. (x0 + width - 1)) \X (y0 .. (y0 + height - 1))

SliceCells(slice) ==
    Rectangle(slice.slice_buffer_x0, slice.slice_buffer_y0,
              slice.slice_width, slice.slice_height)

AreaCells(area) ==
    Rectangle(area.area_x, area.area_y, area.area_width, area.area_height)

WholeBuffer(self) ==
    [area_x |-> 0, area_y |-> 0,
     area_width |-> self.buffer_width, area_height |-> self.buffer_height]

RowMajor(slices) ==
    \A i \in DOMAIN slices, j \in DOMAIN slices :
        i < j => \/ slices[i].slice_buffer_y0 < slices[j].slice_buffer_y0
                 \/ /\ slices[i].slice_buffer_y0 = slices[j].slice_buffer_y0
                    /\ slices[i].slice_buffer_x0 < slices[j].slice_buffer_x0

ExactCover(slices, area) ==
    /\ \A i \in DOMAIN slices : SliceCells(slices[i]) \subseteq AreaCells(area)
    /\ \A i \in DOMAIN slices, j \in DOMAIN slices :
          i # j => SliceCells(slices[i]) \cap SliceCells(slices[j]) = {}
    /\ UNION {SliceCells(slices[i]) : i \in DOMAIN slices} = AreaCells(area)
    /\ RowMajor(slices)

\* the area the step pages in, when the step is a run of update_buffer_area
\* that returns
C29_TilingExactCover ==
    [][/\ (pc = "reload_entire_buffer" /\ pc' = "idle")
             => ExactCover(dem_buffer'.slices_loaded, WholeBuffer(dem_buffer))
       /\ (pc = "fill_missing_data_after_move" /\ pc' = "idle")
             => ExactCover(dem_buffer'.slices_loaded,
                           missing_area(dem_buffer, dem_buffer.block_move[1]))]_vars

(***************************************************************************)
(* C30  No slice crosses a tile boundary: every TileSlice emitted by       *)
(* update_buffer_area has 0 <= slice_tile_x0,                              *)
(* slice_tile_x0 + slice_width <= dem_tile_size, 0 <= slice_tile_y0 and    *)
(* slice_tile_y0 + slice_height <= dem_tile_size, so the failures          *)
(* "Tile X coordinate out of bounds" and "Tile Y coordinate out of         *)
(* bounds" of load_tile_slice are unreachable.                             *)
(***************************************************************************)
InsideTile(slice, dem_tile_size) ==
    /\ 0 <= slice.slice_tile_x0
    /\ slice.slice_tile_x0 + slice.slice_width <= dem_tile_size
    /\ 0 <= slice.slice_tile_y0
    /\ slice.slice_tile_y0 + slice.slice_height <= dem_tile_size

C30_NoSliceCrossesTileBoundary ==
    /\ \A i \in DOMAIN dem_buffer.slices_loaded :
          InsideTile(dem_buffer.slices_loaded[i], dem_buffer.dem_tile_size)
    /\ dem_buffer.panic \notin {"Bug: Tile X coordinate out of bounds",
                                "Bug: Tile Y coordinate out of bounds"}

\* a reload has cut the buffer at a tile boundary in both directions
C30_Witness ==
    /\ Returned
    /\ \E i \in DOMAIN dem_buffer.slices_loaded :
          LET slice == dem_buffer.slices_loaded[i]
          IN  /\ slice.slice_width > 0
              /\ slice.slice_tile_x0 + slice.slice_width = dem_buffer.dem_tile_size
              /\ slice.slice_buffer_x0 + slice.slice_width < dem_buffer.buffer_width
    /\ \E i \in DOMAIN dem_buffer.slices_loaded :
          LET slice == dem_buffer.slices_loaded[i]
          IN  /\ slice.slice_tile_y0 + slice.slice_height = dem_buffer.dem_tile_size
              /\ slice.slice_buffer_y0 + slice.slice_height < dem_buffer.buffer_height

(***************************************************************************)
(* C31  Termination of tiling: for every area with area_width >= 0 and     *)
(* area_height > 0 that update_map_position passes to update_buffer_area   *)
(* (the full buffer, an east strip, a west strip, and the strip of width   *)
(* zero of a move that changes the latitude only), the slice loop ends     *)
(* after finitely many slices.                                             *)
(***************************************************************************)
RunsUpdateBufferArea ==
    pc \in {"reload_entire_buffer", "fill_missing_data_after_move"}

C31_TilingTerminates ==
    [][RunsUpdateBufferArea
          => /\ dem_buffer'.panic # "does not terminate"
             /\ Len(dem_buffer'.slices_loaded)
                    <= dem_buffer.buffer_width * dem_buffer.buffer_height]_vars

\* the loop has ended on a strip of width zero ...
ZeroWidthStripPaged ==
    /\ Returned
    /\ dem_buffer.block_move # None
    /\ dem_buffer.block_move[1].block_width = dem_buffer.buffer_width
    /\ dem_buffer.slices_loaded # <<>>
    /\ \A i \in DOMAIN dem_buffer.slices_loaded :
          dem_buffer.slices_loaded[i].slice_width = 0

\* ... which is the one case in which the cursor does not move to the right
C31_Witness ==
    /\ ZeroWidthStripPaged
    /\ dem_buffer.block_move[1].dest_y0 # dem_buffer.block_move[1].source_y0

(***************************************************************************)
(* water_bodies.rs: the labelling of the water bodies of a tile.  A tile   *)
(* is a record of its size and of the tile_size * tile_size cells that     *)
(* get_cell and set_cell can address, row after row; a point is <<x, y>>.  *)
(***************************************************************************)
U16Max == 65535

\* WaterBodiesProcessingTile::get_cell
tile_get_cell(tile, x, y) == tile.cells[y * tile.tile_size + x + 1]

RectDefault == [min_x |-> 0, min_y |-> 0, width |-> 0, height |-> 0]

\* Rect::extend
extend(self, point) ==
    IF self.width = 0 /\ self.height = 0
    THEN [min_x |-> point[1], min_y |-> point[2], width |-> 1, height |-> 1]
    ELSE LET max_x == self.min_x + self.width - 1
             max_y == self.min_y + self.height - 1
             min_x == Min(self.min_x, point[1])
             min_y == Min(self.min_y, point[2])
             new_max_x == Max(max_x, point[1])
             new_max_y == Max(max_y, point[2])
         IN  [min_x |-> min_x, min_y |-> min_y,
              width |-> new_max_x - min_x + 1,
              height |-> new_max_y - min_y + 1]

\* the neighbour pushed to the back of the queue when the condition holds
pushed(condition, point) == IF condition THEN <<point>> ELSE <<>>

\* neighbors_to_color without the neighbour below
neighbors_to_color_not_down(tile, px, py, point_index) ==
    pushed(px > 0 /\ tile.cells[point_index - 1 + 1] = 1, <<px - 1, py>>)
    \o pushed(px < tile.tile_size - 1 /\ tile.cells[point_index + 1 + 1] = 1,
              <<px + 1, py>>)
    \o pushed(py > 0 /\ tile.cells[point_index - tile.tile_size + 1] = 1,
              <<px, py - 1>>)

\* the neighbours of (px, py) that hold 1, in the order left, right, up, down
neighbors_to_color(tile, px, py, point_index) ==
    pushed(px > 0 /\ tile.cells[point_index - 1 + 1] = 1, <<px - 1, py>>)
    \o pushed(px < tile.tile_size - 1 /\ tile.cells[point_index + 1 + 1] = 1,
              <<px + 1, py>>)
    \o pushed(py > 0 /\ tile.cells[point_index - tile.tile_size + 1] = 1,
              <<px, py - 1>>)
    \o pushed(py < tile.tile_size - 1
                  /\ tile.cells[point_index + tile.tile_size + 1] = 1,
              <<px, py + 1>>)

\* one cell coloured: the body grows by the point
colored_point(tile, color, point_index) ==
    [tile EXCEPT !.cells[point_index + 1] = color]

\* "while let Some((px, py)) = points_to_color.pop_front()"
RECURSIVE color_points(_, _, _, _, _)
color_points(tile, color, points_to_color, surface_area, coverage) ==
    IF points_to_color = <<>>
    THEN [tile |-> tile, surface_area |-> surface_area, coverage |-> coverage]
    ELSE LET px == Head(points_to_color)[1]
             py == Head(points_to_color)[2]
             point_index == py * tile.tile_size + px
         IN  IF tile.cells[point_index + 1] = 1
             THEN color_points(
                      colored_point(tile, color, point_index),
                      color,
                      Tail(points_to_color)
                          \o neighbors_to_color(
                                 colored_point(tile, color, point_index),
                                 px, py, point_index),
                      surface_area + 1,
                      extend(coverage, Head(points_to_color)))
             ELSE color_points(tile, color, Tail(points_to_color),
                               surface_area, coverage)

\* the point the scan goes to after (x, y)
next_point_after(tile, x, y) ==
    IF x < tile.tile_size - 1
    THEN Some(<<x + 1, y>>)
    ELSE IF y < tile.tile_size - 1
    THEN Some(<<0, y + 1>>)
    ELSE None

\* the value try_color_next_water_body returns for a body, and the tile
water_body_found(filled, color, next_point) ==
    [tile   |-> filled.tile,
     result |-> Some([water_body |-> [color |-> color,
                                      surface_area |-> filled.surface_area,
                                      coverage |-> filled.coverage],
                      next_point |-> next_point])]

\* "while let Some((x, y)) = current_point"
RECURSIVE scan_for_water_body(_, _, _)
scan_for_water_body(color, current_point, tile) ==
    IF current_point = None
    THEN [tile |-> tile, result |-> None]
    ELSE IF tile_get_cell(tile, current_point[1][1], current_point[1][2]) = 1
    THEN water_body_found(
             color_points(tile, color, <<current_point[1]>>, 0, RectDefault),
             color,
             next_point_after(tile, current_point[1][1], current_point[1][2]))
    ELSE scan_for_water_body(
             color,
             next_point_after(tile, current_point[1][1], current_point[1][2]),
             tile)

try_color_next_water_body(color, starting_point, tile) ==
    scan_for_water_body(color, Some(starting_point), tile)

\* the body of the loop of color_water_bodies, after a body was found
RECURSIVE color_water_bodies_loop(_, _, _, _)
color_water_bodies_next(found, color, water_bodies) ==
    IF found.result = None
    THEN [tile |-> found.tile, water_bodies |-> water_bodies, panic |-> ""]
    ELSE IF color = U16Max
    THEN [tile |-> found.tile, water_bodies |-> water_bodies,
          panic |-> "Too many water bodies for u16 index"]
    ELSE IF found.result[1].next_point # None
    THEN color_water_bodies_loop(
             found.tile, color + 1,
             Append(water_bodies, found.result[1].water_body),
             found.result[1].next_point[1])
    ELSE [tile |-> found.tile,
          water_bodies |-> Append(water_bodies, found.result[1].water_body),
          panic |-> ""]

color_water_bodies_loop(tile, color, water_bodies, starting_point) ==
    color_water_bodies_next(
        try_color_next_water_body(color, starting_point, tile),
        color, water_bodies)

\* color_water_bodies giving the first body the colour 3
color_water_bodies_from_3(tile) == color_water_bodies_loop(tile, 3, <<>>, <<0, 0>>)

\* color_water_bodies: the tile it leaves and the Vec it returns
color_water_bodies(tile) == color_water_bodies_loop(tile, 2, <<>>, <<0, 0>>)

(***************************************************************************)
(* dem_tile_id.rs: DemTileId.  A tile name is the sequence of its          *)
(* characters.                                                             *)
(***************************************************************************)
DecimalDigits == <<"0", "1", "2", "3", "4", "5", "6", "7", "8", "9">>

IsDigit(c) == \E d \in DOMAIN DecimalDigits : DecimalDigits[d] = c

DigitValue(c) == (CHOOSE d \in DOMAIN DecimalDigits : DecimalDigits[d] = c) - 1

\* str::parse::<i16> of a run of decimal digits; anything else in the names
\* of the model is an error
RECURSIVE parse_digits(_)
parse_digits(chars) ==
    IF Len(chars) = 1
    THEN DigitValue(chars[1])
    ELSE parse_digits(SubSeq(chars, 1, Len(chars) - 1)) * 10
             + DigitValue(chars[Len(chars)])

parse_i16(chars) ==
    IF chars # <<>> /\ \A i \in DOMAIN chars : IsDigit(chars[i])
    THEN [ok |-> parse_digits(chars) <= I16Max, value |-> parse_digits(chars)]
    ELSE [ok |-> FALSE, value |-> 0]

\* str::to_uppercase of one of the letters of a tile name
to_uppercase(c) ==
    CASE c = "n" -> "N"
      [] c = "s" -> "S"
      [] c = "e" -> "E"
      [] c = "w" -> "W"
      [] OTHER -> c

\* the decimal digits "{}" writes for a number that is not negative
RECURSIVE to_decimal(_)
to_decimal(n) ==
    IF n < 10
    THEN <<DecimalDigits[n + 1]>>
    ELSE to_decimal(n \div 10) \o <<DecimalDigits[(n % 10) + 1]>>

abs(n) == IF n < 0 THEN -n ELSE n

\* <DemTileId as FromStr>::from_str
from_str(tile_name) ==
    LET lat == parse_i16(SubSeq(tile_name, 2, 3))
        lon == parse_i16(SubSeq(tile_name, 5, 7))
    IN  IF Len(tile_name) # 7
        THEN [ok |-> FALSE, err |-> "Invalid tile ID length"]
        ELSE IF ~lat.ok
        THEN [ok |-> FALSE, err |-> "Failed to parse latitude"]
        ELSE IF ~lon.ok
        THEN [ok |-> FALSE, err |-> "Failed to parse longitude"]
        ELSE [ok  |-> TRUE,
              lon |-> IF to_uppercase(tile_name[4]) = "E"
                      THEN lon.value ELSE -lon.value,
              lat |-> IF to_uppercase(tile_name[1]) = "N"
                      THEN lat.value ELSE -lat.value]

\* <DemTileId as Display>::fmt, so to_string
to_string(self) ==
    <<IF self.lat >= 0 THEN "N" ELSE "S">>
    \o to_decimal(abs(self.lat))
    \o <<IF self.lon >= 0 THEN "E" ELSE "W">>
    \o to_decimal(abs(self.lon))

\* "N54E168".parse().unwrap().to_string()
parse_and_format(tile_name) ==
    LET tile_id == from_str(tile_name)
    IN  [parsed    |-> tile_id,
         formatted |-> IF tile_id.ok THEN to_string(tile_id) ELSE <<>>]

(***************************************************************************)
(* The fourth state machine: color_water_bodies applied once to a tile of  *)
(* cells 0 and 1, and a tile name parsed and formatted once.               *)
(***************************************************************************)
MaxWaterTileSize == 3

WaterTiles ==
    UNION {{[tile_size |-> tile_size, cells |-> cells] :
               cells \in [1 .. (tile_size * tile_size) -> {0, 1}]} :
           tile_size \in 1 .. MaxWaterTileSize}

Hemispheres == {<<"N", "E">>, <<"S", "W">>, <<"N", "W">>, <<"S", "E">>,
                <<"n", "e">>, <<"s", "w">>, <<"n", "W">>, <<"S", "e">>}

LatitudeDigits == {<<"5", "4">>, <<"0", "5">>, <<"0", "0">>, <<"8", "9">>}

LongitudeDigits == {<<"1", "6", "8">>, <<"0", "0", "6">>, <<"0", "0", "0">>,
                    <<"0", "6", "0">>, <<"1", "7", "9">>}

\* the well-formed names: letter, two digits, letter, three digits
TileNames ==
    {<<h[1]>> \o lat \o <<h[2]>> \o lon :
        h \in Hemispheres, lat \in LatitudeDigits, lon \in LongitudeDigits}

WaterInit ==
    /\ dem_buffer = DemBufferNew(BufferWidth, BufferHeight, DemTileSize,
                                 MinCellDistance)
    /\ pc = "idle"
    /\ arg = NoArg
    /\ calls = 0
    /\ \/ \E tile \in WaterTiles :
             unit = [fn |-> "none", kind |-> "tile", input |-> tile, output |-> 0]
       \/ \E tile_name \in TileNames :
             unit = [fn |-> "none", kind |-> "tile_name", input |-> tile_name,
                     output |-> 0]

ApplyColorWaterBodies ==
    /\ unit.fn = "none"
    /\ unit.kind = "tile"
    /\ Apply("color_water_bodies", color_water_bodies(unit.input))

ApplyParseAndFormat ==
    /\ unit.fn = "none"
    /\ unit.kind = "tile_name"
    /\ Apply("DemTileId parse and format", parse_and_format(unit.input))

WaterNext ==
    \/ ApplyColorWaterBodies
    \/ ApplyParseAndFormat

WaterSpec == WaterInit /\ [][WaterNext]_vars

(***************************************************************************)
(* Vocabulary of the water bodies: the tile before is unit.input, the      *)
(* tile after and the bodies returned are in unit.output.  A cell is its   *)
(* index in the array.                                                     *)
(***************************************************************************)
WaterBodiesColored == unit.fn = "color_water_bodies"

CellsOf(tile) == DOMAIN tile.cells

CellX(tile, i) == (i - 1) % tile.tile_size

CellY(tile, i) == (i - 1) \div tile.tile_size

\* horizontally or vertically adjacent
Adjacent(tile, i, j) ==
    \/ CellY(tile, i) = CellY(tile, j) /\ abs(CellX(tile, i) - CellX(tile, j)) = 1
    \/ CellX(tile, i) = CellX(tile, j) /\ abs(CellY(tile, i) - CellY(tile, j)) = 1

WaterCells(tile) == {i \in CellsOf(tile) : tile.cells[i] = 1}

\* the cells that hold 1 and are joined to a cell of `reached` by a path of
\* adjacent cells that hold 1
RECURSIVE Grown(_, _)
Grown(tile, reached) ==
    LET more == reached \cup {j \in WaterCells(tile) :
                                 \E i \in reached : Adjacent(tile, i, j)}
    IN  IF more = reached THEN reached ELSE Grown(tile, more)

Component(tile, i) == Grown(tile, {i})

Components(tile) == {Component(tile, i) : i \in WaterCells(tile)}

FirstCell(cells) == CHOOSE i \in cells : \A j \in cells : i <= j

CellsColored(tile, color) == {i \in CellsOf(tile) : tile.cells[i] = color}

(***************************************************************************)
(* C32  Water-body labelling: for a tile whose cells are all 0 or 1,       *)
(* after color_water_bodies no cell holds 1, every cell that held 0 still  *)
(* holds 0, and two cells that held 1 end with the same colour if and      *)
(* only if a path of horizontally or vertically adjacent cells that held   *)
(* 1 connects them.                                                        *)
(***************************************************************************)
C32_WaterBodyLabelling ==
    WaterBodiesColored
        => /\ unit.output.panic = ""
           /\ \A i \in CellsOf(unit.input) :
                 /\ unit.output.tile.cells[i] # 1
                 /\ unit.input.cells[i] = 0 => unit.output.tile.cells[i] = 0
           /\ \A i \in WaterCells(unit.input), j \in WaterCells(unit.input) :
                 (unit.output.tile.cells[i] = unit.output.tile.cells[j])
                     <=> j \in Component(unit.input, i)

\* a body that bends: its first cell and another cell of its first row are
\* joined only through a row below; and a second body
C32_Witness ==
    /\ WaterBodiesColored
    /\ unit.input.tile_size = 3
    /\ unit.input.cells = <<1, 0, 1, 1, 1, 1, 0, 0, 0>>
    /\ unit.output.tile.cells = <<2, 0, 2, 2, 2, 2, 0, 0, 0>>

(***************************************************************************)
(* C33  Water-body enumeration: color_water_bodies returns exactly one     *)
(* WaterBody for every 4-connected component of cells that hold 1, with    *)
(* the colours 2, 3, 4, ... given in the row-major order of the first      *)
(* cells of the components, and the surface_area of every body is the      *)
(* number of cells that hold its colour in the end.                        *)
(***************************************************************************)
C33_WaterBodyEnumeration ==
    WaterBodiesColored
        => LET bodies == unit.output.water_bodies
               body_cells(k) == CellsColored(unit.output.tile, bodies[k].color)
           IN  /\ Len(bodies) = Cardinality(Components(unit.input))
               /\ \A k \in DOMAIN bodies :
                     /\ bodies[k].color = k + 1
                     /\ body_cells(k) \in Components(unit.input)
                     /\ bodies[k].surface_area = Cardinality(body_cells(k))
               /\ \A k \in DOMAIN bodies, l \in DOMAIN bodies :
                     k < l => FirstCell(body_cells(k)) < FirstCell(body_cells(l))

\* three bodies, the first of three cells
C33_Witness ==
    /\ WaterBodiesColored
    /\ unit.input.tile_size = 3
    /\ unit.input.cells = <<1, 0, 1, 1, 0, 0, 1, 0, 1>>
    /\ Len(unit.output.water_bodies) = 3
    /\ unit.output.water_bodies[1].surface_area = 3
    /\ unit.output.tile.cells = <<2, 0, 3, 2, 0, 0, 2, 0, 4>>

(***************************************************************************)
(* C34  DemTileId parse and format round trip: for every well-formed       *)
(* tile name of 7 characters (hemisphere letter, two latitude digits,      *)
(* hemisphere letter, three longitude digits, such as N54E168 and, with    *)
(* leading zeros, N05E006), parsing the name and formatting the DemTileId  *)
(* with to_string gives the original name in upper case.                   *)
(***************************************************************************)
UpperCased(tile_name) == [i \in DOMAIN tile_name |-> to_uppercase(tile_name[i])]

C34_TileNameRoundTrip ==
    unit.fn = "DemTileId parse and format"
        => /\ unit.output.parsed.ok
           /\ unit.output.formatted = UpperCased(unit.input)

(***************************************************************************)
(* C35  Cell content after a full reload: after a full reload at a centre  *)
(* whose coverage does not cross the antimeridian, for every buffer        *)
(* position (x, y) with 0 <= x < width and 0 <= y < height the cell        *)
(* decodes to the GlobalCell pair (buffer_west_edge + x,                   *)
(* buffer_north_edge - y), for negative and positive coordinates on both   *)
(* axes.                                                                   *)
(***************************************************************************)
\* the columns of the buffer lie in [-180, 180) degrees
InsideAntimeridian(self) ==
    /\ -MaxDegExclusive * self.dem_tile_size <= self.buffer_west_edge
    /\ self.buffer_east_edge <= MaxDegExclusive * self.dem_tile_size

DecodedAt(self, x, y) == to_cell_coords(ValueAt(self, x, y))

HoldsItsGlobalCell(self, x, y) ==
    /\ DecodedAt(self, x, y).x = self.buffer_west_edge + x
    /\ DecodedAt(self, x, y).y = self.buffer_north_edge - y

FreshBufferAt(self, lon, lat) ==
    reload_entire_buffer(
        clear_update_log(
            DemBufferNew(self.buffer_width, self.buffer_height,
                         self.dem_tile_size,
                         self.min_cell_distance_to_edge_before_refresh)),
        lon, lat)

SameContent(self, fresh) ==
    /\ fresh.panic = ""
    /\ self.data = fresh.data
    /\ Position(self) = Position(fresh)

C36_PartialUpdateIsReload ==
    [][(UpdateReturns /\ dem_buffer.state = "Initialized")
          => SameContent(dem_buffer',
                         FreshBufferAt(dem_buffer, arg.lon, arg.lat))]_vars

(***************************************************************************)
(* C37  The visible area is always materialized: if width - visible_width  *)
(* >= 2 * margin and height - visible_height >= 2 * margin with margin     *)
(* >= 0, then after every call of update_map_position that returns, be it  *)
(* a no-op, a partial update or a full reload, the visible rectangle       *)
(* around the requested centre lies inside the coverage of the buffer with *)
(* at least min_cell_distance_to_edge_before_refresh cells to each of the  *)
(* four edges, and the same call made again at once requires no update.    *)
(***************************************************************************)
\* the premise of C37 for the buffer self and the arguments a
LeavesTheMargins(self, a) ==
    LET margin == self.min_cell_distance_to_edge_before_refresh
    IN  /\ margin >= 0
        /\ self.buffer_width - a.visible_area_width >= 2 * margin
        /\ self.buffer_height - a.visible_area_height >= 2 * margin

\* the visible rectangle of the arguments a: west and south edges, and the
\* edges one past the last column to the east and the last row to the north
VisibleRectangle(self, a) ==
    LET west  == from_degrees(a.lon, self.dem_tile_size)
                     - RustDiv(a.visible_area_width, 2)
        north == from_degrees(a.lat, self.dem_tile_size)
                     + RustDiv(a.visible_area_height, 2)
    IN  [west |-> west, east |-> west + a.visible_area_width,
         north |-> north, south |-> north - a.visible_area_height]

\* the visible rectangle of a lies in the coverage of self, the margin away
\* from each edge
VisibleAreaCovered(self, a) ==
    LET visible == VisibleRectangle(self, a)
        margin  == self.min_cell_distance_to_edge_before_refresh
    IN  /\ self.buffer_west_edge <= visible.west
        /\ visible.east <= self.buffer_east_edge
        /\ self.buffer_south_edge <= visible.south
        /\ visible.north <= self.buffer_north_edge
        /\ visible.west - self.buffer_west_edge >= margin
        /\ self.buffer_east_edge - visible.east >= margin
        /\ visible.south - self.buffer_south_edge >= margin
        /\ self.buffer_north_edge - visible.north >= margin

\* the call with the arguments a on the buffer self would change nothing
NeedsNoUpdate(self, a) ==
    /\ self.state = "Initialized"
    /\ ~is_buffer_update_required(self, a.lon, a.lat, a.visible_area_width,
                                  a.visible_area_height)

C37_VisibleAreaMaterialized ==
    [][/\ (UpdateReturns /\ LeavesTheMargins(dem_buffer, arg))
             => /\ VisibleAreaCovered(dem_buffer', arg)
                /\ NeedsNoUpdate(dem_buffer', arg)
       /\ NoOpCall
             => \A a \in Args :
                    (CallWith(a) /\ LeavesTheMargins(dem_buffer, a))
                        => /\ VisibleAreaCovered(dem_buffer', a)
                           /\ NeedsNoUpdate(dem_buffer', a)]_vars

\* a partial update has returned at a centre, and a visible area that leaves
\* the margins, centred there, keeps the margin to all four edges
C37_Witness ==
    /\ PartialUpdateReturned
    /\ \E a \in Args :
          /\ from_degrees(a.lon, dem_buffer.dem_tile_size)
                 = dem_buffer.center_global_cell_lon
          /\ from_degrees(a.lat, dem_buffer.dem_tile_size)
                 = dem_buffer.center_global_cell_lat
          /\ LeavesTheMargins(dem_buffer, a)
          /\ VisibleAreaCovered(dem_buffer, a)
          /\ dem_buffer.buffer_east_edge - VisibleRectangle(dem_buffer, a).east
                 = dem_buffer.min_cell_distance_to_edge_before_refresh

(***************************************************************************)
(* C38  Sentinel distinctness: the value encoded for a populated cell is   *)
(* never the value 0 that marks a cell as not yet populated, for any pair  *)
(* of global cells the buffer can cover, the pair (0, 0) included; a       *)
(* buffer whose coverage contains the global cell (0, 0) has all its cells *)
(* set after a reload, and set_cell refuses to write that cell again.      *)
(***************************************************************************)
\* the key of the global cell the buffer cell (x, y) of self covers
CoveredKey(self, x, y) ==
    from_cell_coords(self.buffer_west_edge + x, self.buffer_north_edge - y)

\* the buffer cell (x, y) of self holds a value that is not the sentinel, and
\* set_cell on it ends in the panic of the overwrite guard
Populated(self, x, y) ==
    /\ CoveredKey(self, x, y).value # 0
    /\ ValueAt(self, x, y) # 0
    /\ set_cell_check(self, x, y)
           = "Bug: Trying to overwrite an already occupied cell"

C38_SentinelDistinct ==
    [][(pc = "reload_entire_buffer" /\ pc' = "idle")
          => \A x \in Columns, y \in Rows : Populated(dem_buffer', x, y)]_vars

(***************************************************************************)
(* C39  Every TileSlice recorded in slices_loaded by a call of             *)
(* update_map_position has slice_width > 0 and slice_height > 0 and lies   *)
(* within the buffer: slice_buffer_x0 + slice_width <= width and           *)
(* slice_buffer_y0 + slice_height <= height.  In particular a partial      *)
(* update whose overlap spans the full width of the buffer records no      *)
(* empty slice.                                                            *)
(***************************************************************************)
NonEmptySliceInBuffer(self, slice) ==
    /\ slice.slice_width > 0
    /\ slice.slice_height > 0
    /\ slice.slice_buffer_x0 + slice.slice_width <= self.buffer_width
    /\ slice.slice_buffer_y0 + slice.slice_height <= self.buffer_height

C39_SlicesNonEmptyInBuffer ==
    \A i \in DOMAIN dem_buffer.slices_loaded :
        NonEmptySliceInBuffer(dem_buffer, dem_buffer.slices_loaded[i])

====
